---- MODULE Spec2Model ----
(***************************************************************************)
(* Model of the ap-cv template-matching engine (packages/ap-cv) and of the *)
(* matching policy layer built on it.                                      *)
(*                                                                         *)
(*   Spec         the process-wide Matcher engine: threads calling the     *)
(*                public match_template, the OnceLock, the Mutex, and the  *)
(*                passes of Matcher::match_template.                       *)
(*   SpecMatcher  SingleMatcher / BestMatcher applied to correlation       *)
(*                surfaces (pure functions of the surface).                *)
(*                                                                         *)
(* f32 values are modelled by integers (a fixed-point scale of 1/100 where *)
(* the source uses fractions); NaN is not modelled.  u32 values are        *)
(* carried by their two's-complement representative: an integer x stands   *)
(* for x mod 2^32, so +, - and * on the small magnitudes reached here are  *)
(* the wrapping operations of a release build, and a negative              *)
(* representative denotes a value of at least 2^31.                        *)
(***************************************************************************)
EXTENDS Integers, Sequences, FiniteSets, TLC

\* ------------------------------------------------------------------ bounds
NumThreads == 2      \* calling threads
MaxCalls == 2        \* calls of the public match_template, over all threads
MaxDim == 2          \* widths and heights of images and templates: 1..MaxDim
MaxSide == 2         \* widths and heights of the surfaces given to the matchers
MaxValue == 1        \* surface values are 0, 2, .., 2 * MaxValue
MaxImages == 2       \* candidate images of one BestMatcher call
MaxWidth == 3        \* widths of the surfaces given to find_matches
MaxHeight == 2       \* heights of the surfaces given to find_matches
MaxPixel == 1        \* pixel values of the images matched pixel by pixel
MaxSteps == 2        \* steps of a Task
MaxRepeat == 1       \* TaskStep.repeat is None or Some(0..MaxRepeat)
MaxRetry == 1        \* TaskStep.retry is None or Some(-1..MaxRetry)
MaxNodes == 3        \* nodes of a NavGraph
MaxEdges == 3        \* edges of a NavGraph
MaxGestures == 2     \* calls of click and swipe, over all threads
MaxMoves == 1        \* iterations of the loop of MaaTouch::swipe
\* executions of actions followed in one run of a Task: what a Task can need
\* when none of its steps retries without limit
MaxAttempts == MaxSteps * (MaxRepeat + 1) * (MaxRetry + 1)

\* ------------------------------------------------------- program constants
F32Size == 4         \* size_of::<f32>()
WorkgroupSize == 8   \* elements of the result per workgroup and axis

Threads == 1..NumThreads
Dims == 1..MaxDim
NoThread == 0

\* enum MatchTemplateMethod
Methods ==
    { "SumOfSquaredDifference", "SumOfSquaredDifferenceNormed",
      "CrossCorrelation", "CrossCorrelationNormed",
      "CorrelationCoefficient", "CorrelationCoefficientNormed" }

\* the two methods that take the mean-subtraction pre-pass
NeedsPrePass(method) ==
    method \in { "CorrelationCoefficient", "CorrelationCoefficientNormed" }

\* the two lower-is-better methods
IsDifference(method) ==
    method \in { "SumOfSquaredDifference", "SumOfSquaredDifferenceNormed" }

VARIABLES
    once,        \* the OnceLock MATCHER: "uninit", "running", "ready"
    lock,        \* holder of Mutex<Matcher>, or NoThread
    poisoned,    \* the Mutex was held by a thread that panicked
    buf,         \* Matcher.{input,template,result,staging}_buffer
    uniforms,    \* contents of Matcher.uniform_buffer
    bindGroup,   \* Matcher.bind_group: the buffer ids it was built from
    inflight,    \* the pass submitted to the queue and not yet read back
    pc,          \* each thread's position in the public match_template
    stack,       \* each thread's frames of Matcher::match_template
    result,      \* what each thread's last call produced
    calls,       \* calls started so far
    constructed, \* how many times Matcher::new has run
    history,     \* each thread's lock acquisitions and dispatches in its call
    \* ---- a caller that repeats one call (SpecRepeat)
    given,       \* the arguments it passes, and how many calls have entered
    \* ---- policy layer (SpecMatcher)
    options,     \* MatcherOptions {method, threshold}
    template,    \* template width and height
    candidates,  \* surfaces returned by the engine, one per candidate image
    single,      \* SingleMatcher results so far (BestMatcher.single_results)
    best,        \* BestMatcher result
    phase,       \* position in BestMatcher::match_template
    \* ---- MultiMatcher and find_matches (SpecMulti)
    input,       \* the surface find_matches scans (matched_image)
    cursor,      \* the next pixel of enumerate_pixels, counted from 1
    matches,     \* find_matches' Vec<Match>
    scanned,     \* the matches as the scan left them, before sort_by
    multi,       \* MultiMatcherResult.result
    stage,       \* position in MultiMatcher::match_template
    \* ---- SingleMatcher on images given pixel by pixel (SpecPixels)
    screen,      \* the image of the latest call
    region,      \* the sub-rectangle of the image its template was cut from
    outcome,     \* what the call returned: a SingleMatcherResult, or a panic
    \* ---- a CorrelationCoefficient call on pixel images (SpecMeans)
    prepass,     \* its position, arguments, local averages and zero-mean inputs
    \* ---- SingleMatcher calls with any method (SpecSingle)
    readback,    \* the latest call's image and template sizes and map signal
    \* ---- Task and TaskStep (SpecTask)
    steps,       \* Task.steps
    stepIx,      \* the step the loop of Task::execute is at, counted from 1
    round,       \* repeats of exec() done in this step
    tries,       \* executions of the action in this round
    taskPc,      \* position in Task::execute
    executed,    \* the step of every action executed so far, in order
    attempts,    \* step, round and result of every action executed so far
    stepResults, \* what TaskStep::execute returned for each step run
    taskRet,     \* what Task::execute returned
    \* ---- NavGraph::nav (SpecNav)
    nav,         \* the graph, the call's arguments, its path, log and result
    \* ---- AndroidController and MaaTouch (SpecController)
    app,         \* App::init inside from_device: position, log and result
    touch        \* the MaaTouch mutex, its input stream and the gestures

engineVars ==
    << once, lock, poisoned, buf, uniforms, bindGroup, inflight,
       pc, stack, result, calls, constructed, history >>
matcherVars == << options, template, candidates, single, best, phase >>
multiVars == << input, cursor, matches, scanned, multi, stage >>
pixelVars == << screen, region, outcome, prepass, readback >>
taskVars ==
    << steps, stepIx, round, tries, taskPc, executed, attempts, stepResults,
       taskRet >>
controlVars == << nav, app, touch >>
vars ==
    << engineVars, given, matcherVars, multiVars, pixelVars, taskVars,
       controlVars >>

\* the variables an engine step, and a step of the matchers, leaves alone
outsideEngine == << matcherVars, multiVars, pixelVars, taskVars, controlVars >>
outsideMatcher ==
    << engineVars, given, multiVars, pixelVars, taskVars, controlVars >>
outsideMulti ==
    << engineVars, given, candidates, single, best, phase, pixelVars, taskVars,
       controlVars >>
outsidePixels ==
    << lock, inflight, pc, stack, result, history, given,
       template, candidates, single, best, phase, multiVars, taskVars,
       controlVars >>
outsideMeans ==
    << lock, inflight, pc, stack, result, history, given,
       matcherVars, multiVars, screen, region, outcome, readback, taskVars,
       controlVars >>
outsideSingle ==
    << lock, inflight, pc, stack, result, history, given,
       candidates, single, best, phase, multiVars, screen, region, prepass,
       taskVars, controlVars >>
outsideTask ==
    << engineVars, given, matcherVars, multiVars, pixelVars, controlVars >>
outsideNav ==
    << engineVars, given, matcherVars, multiVars, pixelVars, taskVars, app, touch >>
outsideController ==
    << engineVars, given, matcherVars, multiVars, pixelVars, taskVars, nav >>

\* ===================================================================
\*  The Matcher engine  (packages/ap-cv/src/core/template_matching.rs)
\* ===================================================================

\* Option<wgpu::Buffer>: id 0 is None, a live buffer has an id >= 1
NoBuffer == [id |-> 0, size |-> 0]
NoBindGroup == [input |-> 0, template |-> 0, result |-> 0]
NoSurface == [w |-> 0, h |-> 0, fill |-> "none"]
NoPass == [owner |-> NoThread, method |-> "none", bind |-> NoBindGroup,
           uniforms |-> << 0, 0, 0, 0 >>, groups |-> << 0, 0 >>]

\* Matcher::new: no buffer, no bind group, a fresh (zeroed) uniform buffer
NewBuffers ==
    [input |-> NoBuffer, template |-> NoBuffer,
     result |-> NoBuffer, staging |-> NoBuffer]
NewUniforms ==
    [image_width |-> 0, image_height |-> 0,
     template_width |-> 0, template_height |-> 0]

\* ids of the buffers that are still referenced by the engine
LiveIds(b, bg) ==
    { b.input.id, b.template.id, b.result.id, b.staging.id,
      bg.input, bg.template, bg.result } \ {0}

\* the id of a newly created buffer: one that no live object carries
FreshId(used) ==
    CHOOSE i \in 1..(Cardinality(used) + 1) :
        i \notin used /\ \A j \in 1..(i - 1) : j \in used

\* faulty variant: the size test is dropped and every call allocates
PrepareWithSizeAlways(buffer, size, used) ==
    [buffer |-> [id |-> FreshId(used), size |-> size], update |-> TRUE]

\* prepare_buffer_init_with_size: [buffer, update]
PrepareWithSize(buffer, size, used) ==
    LET update == buffer.id = 0 \/ buffer.size # size
    IN  [buffer |-> IF update THEN [id |-> FreshId(used), size |-> size]
                    ELSE buffer,
         update |-> update]

\* prepare_buffer_init_with_image: the required size is the image's byte
\* length; the pixel data is written on both branches
PrepareWithImage(buffer, image, used) ==
    PrepareWithSize(buffer, image.w * image.h * F32Size, used)

\* a frame of Matcher::match_template
Frame(img, tpl, method, padding) ==
    [img |-> img, tpl |-> tpl, method |-> method, padding |-> padding,
     pc |-> "start",
     eff |-> img,               \* the image after pre-pass and padding
     res |-> [w |-> 0, h |-> 0],\* (result_w, result_h)
     update |-> FALSE,          \* `update`: some buffer was reallocated
     avg_image |-> NoSurface,   \* surface of the first pre-pass
     avg_template |-> NoSurface,\* surface of the second pre-pass
     signal |-> "none",         \* what the map_async channel holds
     out |-> NoSurface]         \* `res`: the surface this pass returns

Top(t) == stack[t][Len(stack[t])]
InEngine(t) == stack[t] # << >>
SetTop(t, f) == [stack EXCEPT ![t] = [@ EXCEPT ![Len(@)] = f]]
AtTop(t, where) == pc[t] = "in" /\ InEngine(t) /\ Top(t).pc = where

\* faulty variant: the padded image is one column and one row too large
PaddedDimsNoMinusOne(img, tpl, padding) ==
    IF padding THEN [w |-> img.w + tpl.w, h |-> img.h + tpl.h]
    ELSE img

\* the padded image of lines 421-436
PaddedDims(img, tpl, padding) ==
    IF padding THEN [w |-> img.w + tpl.w - 1, h |-> img.h + tpl.h - 1]
    ELSE img

\* faulty variant: the "+ 1" of the result size is forgotten
ResultDimsNoPlusOne(img, tpl) == [w |-> img.w - tpl.w, h |-> img.h - tpl.h]

\* lines 440-443, as u32 arithmetic
ResultDims(img, tpl) == [w |-> img.w - tpl.w + 1, h |-> img.h - tpl.h + 1]
\* the subtraction image.width() - template.width() leaves the u32 range
Underflows(img, tpl) == img.w < tpl.w \/ img.h < tpl.h

\* an entry of the history of a call: the lock was taken, or a pass was
\* dispatched from a frame at the given depth of Matcher::match_template
Locked ==
    [kind |-> "lock", method |-> "none", padding |-> FALSE,
     img |-> [w |-> 0, h |-> 0], tpl |-> [w |-> 0, h |-> 0],
     depth |-> 0, centred |-> FALSE]
Dispatched(f, depth) ==
    [kind |-> "dispatch", method |-> f.method, padding |-> f.padding,
     img |-> f.img, tpl |-> f.tpl, depth |-> depth,
     centred |-> (f.avg_image # NoSurface /\ f.avg_template # NoSurface)]

\* what a call left its caller: nothing yet, a surface, or a panic message
NoResult == [kind |-> "none", surface |-> NoSurface]

\* ---------------------------------------------------- unwinding a panic
\* A panic unwinds every frame of the thread; the MutexGuard is dropped
\* during unwinding, which poisons and releases the Mutex.
Panic(t, message) ==
    /\ pc' = [pc EXCEPT ![t] = "panicked"]
    /\ stack' = [stack EXCEPT ![t] = << >>]
    /\ result' = [result EXCEPT ![t] = [kind |-> message, surface |-> NoSurface]]
    /\ lock' = IF lock = t THEN NoThread ELSE lock
    /\ poisoned' = (poisoned \/ lock = t)
    /\ history' = [history EXCEPT ![t] = << >>]

\* ------------------------------------------- the public match_template
\* faulty variant: a plain "is it set yet" test in place of get_or_init, so
\* every thread that finds the cell unset runs Matcher::new
CallWithoutOnce(t) ==
    /\ pc[t] \in { "idle", "returned" }
    /\ calls < MaxCalls
    /\ calls' = calls + 1
    /\ result' = [result EXCEPT ![t] = NoResult]
    /\ IF once # "ready"
       THEN once' = "running" /\ pc' = [pc EXCEPT ![t] = "construct"]
       ELSE once' = once /\ pc' = [pc EXCEPT ![t] = "lock"]
    /\ UNCHANGED << lock, poisoned, buf, uniforms, bindGroup, inflight, stack,
                    constructed >>
    /\ UNCHANGED << given, history, outsideEngine >>

\* a thread calls match_template: matcher() reads the OnceLock
Call(t) ==
    /\ pc[t] \in { "idle", "returned" }
    /\ calls < MaxCalls
    /\ calls' = calls + 1
    /\ result' = [result EXCEPT ![t] = NoResult]
    /\ IF once = "uninit"
       THEN once' = "running" /\ pc' = [pc EXCEPT ![t] = "construct"]
       ELSE once' = once /\
            pc' = [pc EXCEPT ![t] = IF once = "ready" THEN "lock" ELSE "once"]
    /\ UNCHANGED << lock, poisoned, buf, uniforms, bindGroup, inflight, stack,
                    constructed >>
    /\ UNCHANGED << given, history, outsideEngine >>

\* get_or_init runs Matcher::new in the one thread that found the cell empty
MatcherNew(t) ==
    /\ pc[t] = "construct"
    /\ once' = "ready"
    /\ constructed' = constructed + 1
    /\ buf' = NewBuffers
    /\ uniforms' = NewUniforms
    /\ bindGroup' = NoBindGroup
    /\ pc' = [pc EXCEPT ![t] = "lock"]
    /\ UNCHANGED << lock, poisoned, inflight, stack, result, calls >>
    /\ UNCHANGED << given, history, outsideEngine >>

\* get_or_init in the other threads returns once the cell is set
OnceReady(t) ==
    /\ pc[t] = "once"
    /\ once = "ready"
    /\ pc' = [pc EXCEPT ![t] = "lock"]
    /\ UNCHANGED << once, constructed, lock, poisoned, buf, uniforms, bindGroup, inflight,
                    stack, result, calls >>
    /\ UNCHANGED << given, history, outsideEngine >>

\* faulty variant: the engine is entered without waiting for the Mutex
AcquireUnguarded(t) ==
    /\ pc[t] = "lock"
    /\ ~poisoned
    /\ \E iw \in Dims, ih \in Dims, tw \in Dims, th \in Dims,
          method \in Methods, padding \in BOOLEAN :
          stack' = [stack EXCEPT ![t] =
                      << Frame([w |-> iw, h |-> ih], [w |-> tw, h |-> th],
                               method, padding) >>]
    /\ lock' = t
    /\ history' = [history EXCEPT ![t] = << Locked >>]
    /\ pc' = [pc EXCEPT ![t] = "in"]
    /\ UNCHANGED << once, constructed, poisoned, buf, uniforms, bindGroup, inflight,
                    result, calls >>
    /\ UNCHANGED << given, outsideEngine >>

\* matcher().lock().unwrap(), then the call of Matcher::match_template with
\* the caller's arguments
Acquire(t) ==
    /\ pc[t] = "lock"
    /\ lock = NoThread
    /\ ~poisoned
    /\ \E iw \in Dims, ih \in Dims, tw \in Dims, th \in Dims,
          method \in Methods, padding \in BOOLEAN :
          stack' = [stack EXCEPT ![t] =
                      << Frame([w |-> iw, h |-> ih], [w |-> tw, h |-> th],
                               method, padding) >>]
    /\ lock' = t
    /\ history' = [history EXCEPT ![t] = << Locked >>]
    /\ pc' = [pc EXCEPT ![t] = "in"]
    /\ UNCHANGED << once, constructed, poisoned, buf, uniforms, bindGroup, inflight,
                    result, calls >>
    /\ UNCHANGED << given, outsideEngine >>

\* lock() on a poisoned Mutex returns Err, and unwrap panics
AcquirePoisoned(t) ==
    /\ pc[t] = "lock"
    /\ lock = NoThread
    /\ poisoned
    /\ Panic(t, "PoisonError")
    /\ UNCHANGED << once, constructed, buf, uniforms, bindGroup, inflight, calls >>
    /\ UNCHANGED << given, outsideEngine >>

\* --------------------------------------------- Matcher::match_template
\* faulty variant: the pre-pass goes through the public match_template,
\* which locks the Mutex the thread already holds
PrePassImageReentrant(t) ==
    /\ AtTop(t, "start")
    /\ NeedsPrePass(Top(t).method)
    /\ stack' = SetTop(t, [Top(t) EXCEPT !.pc = "pre1"])
    /\ pc' = [pc EXCEPT ![t] = "lock"]
    /\ UNCHANGED << once, constructed, lock, poisoned, buf, uniforms, bindGroup, inflight,
                    result, calls >>
    /\ UNCHANGED << given, history, outsideEngine >>

\* faulty variant: the pre-pass is entered with the caller's method, so the
\* inner pass takes the pre-pass again
PrePassImageSameMethod(t) ==
    /\ AtTop(t, "start")
    /\ NeedsPrePass(Top(t).method)
    /\ Len(stack[t]) < 3
    /\ stack' = [stack EXCEPT ![t] =
                   Append([@ EXCEPT ![Len(@)].pc = "pre1"],
                          Frame(Top(t).img, Top(t).tpl, Top(t).method, TRUE))]
    /\ UNCHANGED << once, constructed, lock, poisoned, buf, uniforms, bindGroup, inflight,
                    pc, result, calls >>
    /\ UNCHANGED << given, history, outsideEngine >>

\* lines 371-386: a CorrelationCoefficient call first correlates the image
\* with the averaging kernel (CrossCorrelation, padding = true)
PrePassImage(t) ==
    /\ AtTop(t, "start")
    /\ NeedsPrePass(Top(t).method)
    /\ stack' = [stack EXCEPT ![t] =
                   Append([@ EXCEPT ![Len(@)].pc = "pre1"],
                          Frame(Top(t).img, Top(t).tpl, "CrossCorrelation", TRUE))]
    /\ UNCHANGED << once, constructed, lock, poisoned, buf, uniforms, bindGroup, inflight,
                    pc, result, calls >>
    /\ UNCHANGED << given, history, outsideEngine >>

\* lines 387-392: then the template with the same kernel
PrePassTemplate(t) ==
    /\ AtTop(t, "pre1")
    /\ stack' = [stack EXCEPT ![t] =
                   Append([@ EXCEPT ![Len(@)].pc = "pre2"],
                          Frame(Top(t).tpl, Top(t).tpl, "CrossCorrelation", TRUE))]
    /\ UNCHANGED << once, constructed, lock, poisoned, buf, uniforms, bindGroup, inflight,
                    pc, result, calls >>
    /\ UNCHANGED << given, history, outsideEngine >>

\* v.zip(avg) yields the shorter length; ImageBuffer::from_vec(w, h, v) is
\* None when v holds fewer than w * h values
FromVecFits(dims, other) ==
    LET len == IF dims.w * dims.h <= other.w * other.h
               THEN dims.w * dims.h ELSE other.w * other.h
    IN  len >= dims.w * dims.h

\* lines 394-417: the local averages are subtracted pixel by pixel; the
\* zero-mean image and template keep the dimensions of the originals
Subtract(t) ==
    /\ AtTop(t, "pre2")
    /\ IF FromVecFits(Top(t).img, Top(t).avg_image)
          /\ FromVecFits(Top(t).tpl, Top(t).avg_template)
       THEN /\ stack' = SetTop(t, [Top(t) EXCEPT !.pc = "pad"])
            /\ UNCHANGED << lock, poisoned, pc, result, history >>
       ELSE Panic(t, "from_vec is None")
    /\ UNCHANGED << once, constructed, buf, uniforms, bindGroup, inflight, calls >>
    /\ UNCHANGED << given, outsideEngine >>

ReadyToPad(t) ==
    \/ AtTop(t, "pad")
    \/ AtTop(t, "start") /\ ~NeedsPrePass(Top(t).method)

\* lines 421-444: padding, then (result_w, result_h).  When the template is
\* larger than the effective image the u32 subtraction wraps in a build
\* without overflow checks.
ResultSize(t) ==
    /\ ReadyToPad(t)
    /\ LET eff == PaddedDims(Top(t).img, Top(t).tpl, Top(t).padding)
       IN  stack' = SetTop(t, [Top(t) EXCEPT !.pc = "buffers", !.eff = eff,
                                             !.res = ResultDims(eff, Top(t).tpl)])
    /\ UNCHANGED << once, constructed, lock, poisoned, buf, uniforms, bindGroup, inflight,
                    pc, result, calls >>
    /\ UNCHANGED << given, history, outsideEngine >>

\* ... and panics ("attempt to subtract with overflow") in a build with them
ResultSizeOverflow(t) ==
    /\ ReadyToPad(t)
    /\ Underflows(PaddedDims(Top(t).img, Top(t).tpl, Top(t).padding), Top(t).tpl)
    /\ Panic(t, "attempt to subtract with overflow")
    /\ UNCHANGED << once, constructed, buf, uniforms, bindGroup, inflight, calls >>
    /\ UNCHANGED << given, outsideEngine >>

\* result_buf_sz
ResultBufSize(res) == res.w * res.h * F32Size

\* faulty variant: `update` follows the input buffer alone
PreparedBuffersInputOnly(b, bg, image, tpl, size) ==
    LET i == PrepareWithImage(b.input, image, LiveIds(b, bg))
        b1 == [b EXCEPT !.input = i.buffer]
        k == PrepareWithImage(b1.template, tpl, LiveIds(b1, bg))
        b2 == [b1 EXCEPT !.template = k.buffer]
        r == PrepareWithSize(b2.result, size, LiveIds(b2, bg))
        b3 == [b2 EXCEPT !.result = r.buffer]
        s == PrepareWithSize(b3.staging, size, LiveIds(b3, bg))
        b4 == [b3 EXCEPT !.staging = s.buffer]
    IN  [buf |-> b4, partial |-> b2, update |-> i.update]

\* lines 446-478: the four prepare_* calls, in order; each new buffer
\* replaces the engine's field before the next call
PreparedBuffers(b, bg, image, tpl, size) ==
    LET i == PrepareWithImage(b.input, image, LiveIds(b, bg))
        b1 == [b EXCEPT !.input = i.buffer]
        k == PrepareWithImage(b1.template, tpl, LiveIds(b1, bg))
        b2 == [b1 EXCEPT !.template = k.buffer]
        r == PrepareWithSize(b2.result, size, LiveIds(b2, bg))
        b3 == [b2 EXCEPT !.result = r.buffer]
        s == PrepareWithSize(b3.staging, size, LiveIds(b3, bg))
        b4 == [b3 EXCEPT !.staging = s.buffer]
    IN  [buf |-> b4,
         partial |-> b2,        \* the fields when creating the result buffer fails
         update |-> i.update \/ k.update \/ r.update \/ s.update]

\* a buffer of 2^31 bytes or more is beyond the device's max_buffer_size;
\* the device's uncaptured-error handler panics inside create_buffer, after
\* the input and template buffers were prepared
BufferTooLarge(size) == size < 0

UpdateBuffers(t) ==
    /\ AtTop(t, "buffers")
    /\ \E f \in { Top(t) } :
       \E p \in { PreparedBuffers(buf, bindGroup, f.eff, f.tpl, ResultBufSize(f.res)) } :
           IF BufferTooLarge(ResultBufSize(f.res))
           THEN Panic(t, "wgpu validation error") /\ buf' = p.partial
           ELSE /\ buf' = p.buf
                /\ stack' = SetTop(t, [f EXCEPT !.pc = "bind", !.update = p.update])
                /\ UNCHANGED << lock, poisoned, pc, result, history >>
    /\ UNCHANGED << once, constructed, uniforms, bindGroup, inflight, calls >>
    /\ UNCHANGED << given, outsideEngine >>

\* create_new_bind_group
CreateNewBindGroup(b) ==
    [input |-> b.input.id, template |-> b.template.id, result |-> b.result.id]

\* the Uniforms written at lines 485-494
UniformsOf(image, tpl) ==
    [image_width |-> image.w, image_height |-> image.h,
     template_width |-> tpl.w, template_height |-> tpl.h]

\* lines 480-495: bind group and uniforms follow `update`
UpdateBindGroup(t) ==
    /\ AtTop(t, "bind")
    /\ IF Top(t).update
       THEN /\ bindGroup' = CreateNewBindGroup(buf)
            /\ uniforms' = UniformsOf(Top(t).eff, Top(t).tpl)
       ELSE UNCHANGED << bindGroup, uniforms >>
    /\ stack' = SetTop(t, [Top(t) EXCEPT !.pc = "dispatch"])
    /\ UNCHANGED << once, constructed, lock, poisoned, buf, inflight, pc, result, calls >>
    /\ UNCHANGED << given, history, outsideEngine >>

\* (n as f32 / 8.0).ceil() as u32
Workgroups(n) == (n + WorkgroupSize - 1) \div WorkgroupSize

\* lines 497-575: the compute pass with the method's pipeline and the
\* current bind group, the copy of the result into the staging buffer, and
\* the submission.  A wrapped result dimension asks for more workgroups
\* than any device allows, which the device rejects.
Dispatch(t) ==
    /\ AtTop(t, "dispatch")
    /\ IF bindGroup = NoBindGroup \/ Top(t).res.w < 0 \/ Top(t).res.h < 0
       THEN Panic(t, "wgpu validation error") /\ UNCHANGED inflight
       ELSE /\ inflight' = [owner |-> t, method |-> Top(t).method,
                            bind |-> bindGroup,
                            uniforms |-> << uniforms.image_width,
                                            uniforms.image_height,
                                            uniforms.template_width,
                                            uniforms.template_height >>,
                            groups |-> << Workgroups(Top(t).res.w),
                                          Workgroups(Top(t).res.h) >>]
            /\ stack' = SetTop(t, [Top(t) EXCEPT !.pc = "poll"])
            /\ history' = [history EXCEPT ![t] =
                              Append(@, Dispatched(Top(t), Len(stack[t])))]
            /\ UNCHANGED << lock, poisoned, pc, result >>
    /\ UNCHANGED << once, constructed, buf, uniforms, bindGroup, calls >>
    /\ UNCHANGED << given, outsideEngine >>

\* lines 591-601: map_async registers the callback that sends the mapping
\* result on the bounded(1) channel, and device.poll(wait_indefinitely)
\* blocks until the device is done.  `signal` is what the channel holds
\* when poll returns: Ok(()), Err(BufferAsyncError), or nothing.
Signals == { "ok", "err", "empty" }
Poll(t) ==
    /\ AtTop(t, "poll")
    /\ \E signal \in Signals :
          stack' = SetTop(t, [Top(t) EXCEPT !.pc = "polled", !.signal = signal])
    /\ UNCHANGED << once, constructed, lock, poisoned, buf, uniforms, bindGroup, inflight,
                    pc, result, calls >>
    /\ UNCHANGED << given, history, outsideEngine >>

SurfaceOf(res, fill) == [w |-> res.w, h |-> res.h, fill |-> fill]

\* faulty variant: a failed mapping is read as if the bytes were there
ReceiveSurfaceAlwaysData(signal, res) == SurfaceOf(res, "gpu")

\* lines 603-618: receiver.try_recv().unwrap() panics on an empty channel;
\* Ok(()) copies the mapped bytes, Err(_) gives vec![0.0; result_w * result_h]
ReceiveSurface(signal, res) ==
    IF signal = "ok" THEN SurfaceOf(res, "gpu") ELSE SurfaceOf(res, "zero")

Receive(t) ==
    /\ AtTop(t, "polled")
    /\ IF Top(t).signal = "empty"
       THEN Panic(t, "try_recv is Err(Empty)")
       ELSE /\ stack' = SetTop(t, [Top(t) EXCEPT
                                     !.pc = "done",
                                     !.out = ReceiveSurface(Top(t).signal, Top(t).res)])
            /\ UNCHANGED << lock, poisoned, pc, result, history >>
    /\ inflight' = NoPass
    /\ UNCHANGED << once, constructed, buf, uniforms, bindGroup, calls >>
    /\ UNCHANGED << given, outsideEngine >>

\* the pass returns `res`: to the pre-pass that called it, or (line 133)
\* to the caller of the public function, dropping the MutexGuard
Return(t) ==
    /\ AtTop(t, "done")
    /\ IF Len(stack[t]) = 1
       THEN /\ stack' = [stack EXCEPT ![t] = << >>]
            /\ result' = [result EXCEPT ![t] =
                            [kind |-> "surface", surface |-> Top(t).out]]
            /\ lock' = NoThread
            /\ history' = [history EXCEPT ![t] = << >>]
            /\ pc' = [pc EXCEPT ![t] = "returned"]
       ELSE /\ stack' = [stack EXCEPT ![t] =
                           LET outer == SubSeq(@, 1, Len(@) - 1)
                               f == outer[Len(outer)]
                           IN  [outer EXCEPT ![Len(outer)] =
                                  IF f.pc = "pre1"
                                  THEN [f EXCEPT !.avg_image = Top(t).out]
                                  ELSE [f EXCEPT !.avg_template = Top(t).out]]]
            /\ UNCHANGED << lock, pc, result, history >>
    /\ UNCHANGED << once, constructed, poisoned, buf, uniforms, bindGroup, inflight, calls >>
    /\ UNCHANGED << given, outsideEngine >>

\* ------------------------------------------------------ specification
\* MatcherOptions::default()
DefaultOptions ==
    [method |-> "SumOfSquaredDifferenceNormed", threshold |-> 20,
     padding |-> FALSE]
\* faulty variant: the presets of the normed methods are exchanged
method_default_exchanged(method) ==
    [DefaultOptions EXCEPT
        !.method = method,
        !.threshold =
            IF method \in { "SumOfSquaredDifference", "CrossCorrelation",
                            "CorrelationCoefficient" } THEN 3000
            ELSE IF method = "SumOfSquaredDifferenceNormed" THEN 80
            ELSE 20]

\* MatcherOptions::method_default (thresholds in hundredths)
method_default(method) ==
    [DefaultOptions EXCEPT
        !.method = method,
        !.threshold =
            IF method \in { "SumOfSquaredDifference", "CrossCorrelation",
                            "CorrelationCoefficient" } THEN 3000
            ELSE IF method = "SumOfSquaredDifferenceNormed" THEN 20
            ELSE 80]

NoMatch == [some |-> FALSE, x |-> 0, y |-> 0, width |-> 0, height |-> 0,
            value |-> 0]
NoBest == [some |-> FALSE, index |-> 0, match |-> NoMatch]

MatcherIdle ==
    /\ options = DefaultOptions
    /\ template = [w |-> 1, h |-> 1]
    /\ candidates = << >>
    /\ single = << >>
    /\ best = NoBest
    /\ phase = "idle"

EngineInit ==
    /\ once = "uninit"
    /\ lock = NoThread
    /\ poisoned = FALSE
    /\ buf = NewBuffers
    /\ uniforms = NewUniforms
    /\ bindGroup = NoBindGroup
    /\ inflight = NoPass
    /\ pc = [t \in Threads |-> "idle"]
    /\ stack = [t \in Threads |-> << >>]
    /\ result = [t \in Threads |-> NoResult]
    /\ calls = 0
    /\ constructed = 0
    /\ history = [t \in Threads |-> << >>]

\* no MultiMatcher call is under way
MultiIdle ==
    /\ input = [w |-> 1, h |-> 1, px |-> << 0 >>]
    /\ cursor = 1
    /\ matches = << >>
    /\ scanned = << >>
    /\ multi = << >>
    /\ stage = "idle"

\* no caller is repeating a call
NoArgs == [img |-> [w |-> 0, h |-> 0], tpl |-> [w |-> 0, h |-> 0],
           method |-> "none", padding |-> FALSE, entered |-> 0]
CallerIdle == given = NoArgs

\* no image has been matched pixel by pixel
NoOutcome == [kind |-> "none", result |-> NoMatch,
              matched_image |-> [w |-> 0, h |-> 0, px |-> << >>]]
NoImage == [w |-> 0, h |-> 0, px |-> << >>]
NoReadback == [signal |-> "none", img |-> [w |-> 0, h |-> 0],
               tpl |-> [w |-> 0, h |-> 0]]
NoPrePass ==
    [pos |-> "idle", img |-> NoImage, tpl |-> NoImage, padding |-> FALSE,
     avg_image |-> NoImage, avg_template |-> NoImage,
     signals |-> << >>, out |-> NoImage]
PixelsIdle ==
    /\ screen = [w |-> 0, h |-> 0, px |-> << >>]
    /\ region = [x |-> 0, y |-> 0, w |-> 0, h |-> 0]
    /\ outcome = NoOutcome
    /\ prepass = NoPrePass
    /\ readback = NoReadback

\* no Task is running
TaskIdle ==
    /\ steps = << >>
    /\ stepIx = 1
    /\ round = 0
    /\ tries = 0
    /\ taskPc = "idle"
    /\ executed = << >>
    /\ attempts = << >>
    /\ stepResults = << >>
    /\ taskRet = "none"

\* no navigation is under way
NoNav == [pc |-> "idle", edges |-> << >>, from |-> 0, to |-> 0,
          path |-> << >>, pos |-> 0, ran |-> << >>, ret |-> "none"]
\* no controller has been made
NoApp == [pc |-> "idle", log |-> << >>, ret |-> "none"]
NoGesture == [id |-> 0, kind |-> "none", moves |-> 0, pos |-> 0]
NoTouch ==
    [lock |-> NoThread, poisoned |-> FALSE, stream |-> << >>,
     pc |-> [t \in Threads |-> "idle"],
     cur |-> [t \in Threads |-> NoGesture],
     results |-> << >>]
ControlIdle == nav = NoNav /\ app = NoApp /\ touch = NoTouch

Init ==
    /\ EngineInit /\ CallerIdle /\ MatcherIdle /\ MultiIdle /\ PixelsIdle /\ TaskIdle
    /\ ControlIdle

Next ==
    \E t \in Threads :
        \/ Call(t)
        \/ MatcherNew(t)
        \/ OnceReady(t)
        \/ Acquire(t)
        \/ AcquirePoisoned(t)
        \/ PrePassImage(t)
        \/ PrePassTemplate(t)
        \/ Subtract(t)
        \/ ResultSize(t)
        \/ ResultSizeOverflow(t)
        \/ UpdateBuffers(t)
        \/ UpdateBindGroup(t)
        \/ Dispatch(t)
        \/ Poll(t)
        \/ Receive(t)
        \/ Return(t)

Spec == Init /\ [][Next]_vars

\* ------------------------------------------------- the engine, scheduled
\* the calls the scheduled threads make: a 1 x 1 image, a template one row
\* high, a method without and one with the pre-pass
LiveMethods == { "SumOfSquaredDifference", "CorrelationCoefficient" }
LiveCall(f) ==
    /\ f.method \in LiveMethods
    /\ f.img = [w |-> 1, h |-> 1]
    /\ f.tpl.h = 1

\* matcher().lock().unwrap() and the call of Matcher::match_template, for
\* one of these calls
AcquireLive(t) == Acquire(t) /\ LiveCall(stack'[t][1])

\* a step of thread t inside a call it has started
Progress(t) ==
    \/ MatcherNew(t)
    \/ OnceReady(t)
    \/ AcquireLive(t)
    \/ AcquirePoisoned(t)
    \/ PrePassImage(t)
    \/ PrePassTemplate(t)
    \/ Subtract(t)
    \/ ResultSize(t)
    \/ ResultSizeOverflow(t)
    \/ UpdateBuffers(t)
    \/ UpdateBindGroup(t)
    \/ Dispatch(t)
    \/ Poll(t)
    \/ Receive(t)
    \/ Return(t)

\* A thread that can take a step of its call takes one: the code has no
\* wait other than lock() (line 131) and device.poll (line 601), and no
\* step that gives a call up.  The Mutex is taken to be fair: a thread that
\* finds it free again and again gets it.  Nothing makes a thread start a
\* call.
Fairness ==
    \A t \in Threads : WF_vars(Progress(t)) /\ SF_vars(AcquireLive(t))

NextLive == \E t \in Threads : Call(t) \/ Progress(t)

SpecLive == Init /\ [][NextLive]_vars /\ Fairness

\* ------------------------------------------- one call, made repeatedly
\* matcher().lock().unwrap() and the call of Matcher::match_template, by a
\* caller that passes the same method, padding flag, image and template
\* every time
AcquireGiven(t) ==
    /\ pc[t] = "lock"
    /\ lock = NoThread
    /\ ~poisoned
    /\ stack' = [stack EXCEPT ![t] =
                   << Frame(given.img, given.tpl, given.method, given.padding) >>]
    /\ given' = [given EXCEPT !.entered = @ + 1]
    /\ lock' = t
    /\ history' = [history EXCEPT ![t] = << Locked >>]
    /\ pc' = [pc EXCEPT ![t] = "in"]
    /\ UNCHANGED << once, constructed, poisoned, buf, uniforms, bindGroup,
                    inflight, result, calls >>
    /\ UNCHANGED outsideEngine

RepeatInit ==
    \E iw \in Dims, ih \in Dims, tw \in Dims, th \in Dims,
       method \in Methods, padding \in BOOLEAN :
       given = [img |-> [w |-> iw, h |-> ih], tpl |-> [w |-> tw, h |-> th],
                method |-> method, padding |-> padding, entered |-> 0]

InitRepeat ==
    EngineInit /\ RepeatInit /\ MatcherIdle /\ MultiIdle /\ PixelsIdle /\ TaskIdle /\ ControlIdle

NextRepeat ==
    \E t \in Threads :
        \/ Call(t)
        \/ MatcherNew(t)
        \/ OnceReady(t)
        \/ AcquireGiven(t)
        \/ AcquirePoisoned(t)
        \/ PrePassImage(t)
        \/ PrePassTemplate(t)
        \/ Subtract(t)
        \/ ResultSize(t)
        \/ ResultSizeOverflow(t)
        \/ UpdateBuffers(t)
        \/ UpdateBindGroup(t)
        \/ Dispatch(t)
        \/ Poll(t)
        \/ Receive(t)
        \/ Return(t)

SpecRepeat == InitRepeat /\ [][NextRepeat]_vars

\* ===================================================================
\*  The matching policy layer  (packages/ap-cv/src/matcher/mod.rs)
\* ===================================================================

\* Surface values are the even numbers of 0..2*MaxValue and thresholds are
\* all integers around them, so a threshold can fall on a value or strictly
\* between two values.
Values == { 2 * v : v \in 0..MaxValue }
Thresholds == (0 - 1)..(2 * MaxValue + 1)
Sides == 1..MaxSide

\* a correlation surface: w * h values in row-major order
SurfacesOf(w, h) == { [w |-> w, h |-> h, px |-> p] : p \in [1..(w * h) -> Values] }
Surfaces == UNION { SurfacesOf(w, h) : w \in Sides, h \in Sides }

\* enumerate_pixels: the i-th pixel (from 1) is (x, y), x running fastest
PixelX(s, i) == (i - 1) % s.w
PixelY(s, i) == (i - 1) \div s.w

\* find_extremes: one scan that starts from pixel (0, 0) and replaces the
\* running minimum (maximum) only by a strictly smaller (larger) value
RECURSIVE ScanExtremes(_, _, _)
ScanExtremes(s, i, e) ==
    IF i > s.w * s.h THEN e
    ELSE LET v == s.px[i]
             at == << PixelX(s, i), PixelY(s, i) >>
             e1 == IF v < e.min_value
                   THEN [e EXCEPT !.min_value = v, !.min_value_location = at]
                   ELSE e
             e2 == IF v > e1.max_value
                   THEN [e1 EXCEPT !.max_value = v, !.max_value_location = at]
                   ELSE e1
         IN  ScanExtremes(s, i + 1, e2)

FindExtremes(s) ==
    ScanExtremes(s, 1, [min_value |-> s.px[1], max_value |-> s.px[1],
                        min_value_location |-> << 0, 0 >>,
                        max_value_location |-> << 0, 0 >>])

\* faulty variant: the rect takes the template's height for its width
SomeMatchTransposed(at, tpl, value) ==
    [some |-> TRUE, x |-> at[1], y |-> at[2],
     width |-> tpl.h, height |-> tpl.w, value |-> value]

\* Match { rect: Rect { x, y, width, height }, value }, as Option<Match>
SomeMatch(at, tpl, value) ==
    [some |-> TRUE, x |-> at[1], y |-> at[2],
     width |-> tpl.w, height |-> tpl.h, value |-> value]

\* faulty variant: the threshold comparison is not strict
SingleMatchNonStrict(surface, tpl, opts) ==
    LET extremes == FindExtremes(surface)
    IN  [result |->
            IF IsDifference(opts.method)
            THEN IF extremes.min_value <= opts.threshold
                 THEN SomeMatch(extremes.min_value_location, tpl, extremes.min_value)
                 ELSE NoMatch
            ELSE IF extremes.max_value >= opts.threshold
                 THEN SomeMatch(extremes.max_value_location, tpl, extremes.max_value)
                 ELSE NoMatch,
         matched_image |-> surface]

\* faulty variant: the difference methods report the cell of the maximum
SingleMatchWrongCell(surface, tpl, opts) ==
    LET extremes == FindExtremes(surface)
    IN  [result |->
            IF IsDifference(opts.method)
            THEN IF extremes.min_value < opts.threshold
                 THEN SomeMatch(extremes.max_value_location, tpl, extremes.min_value)
                 ELSE NoMatch
            ELSE IF extremes.max_value > opts.threshold
                 THEN SomeMatch(extremes.max_value_location, tpl, extremes.max_value)
                 ELSE NoMatch,
         matched_image |-> surface]

\* SingleMatcher::match_template, lines 72-113, on the surface the engine
\* returned for the image
SingleMatch(surface, tpl, opts) ==
    LET extremes == FindExtremes(surface)
    IN  [result |->
            IF IsDifference(opts.method)
            THEN IF extremes.min_value < opts.threshold
                 THEN SomeMatch(extremes.min_value_location, tpl, extremes.min_value)
                 ELSE NoMatch
            ELSE IF extremes.max_value > opts.threshold
                 THEN SomeMatch(extremes.max_value_location, tpl, extremes.max_value)
                 ELSE NoMatch,
         matched_image |-> surface]

\* faulty variant: the results without a match are not filtered out
RECURSIVE PassedAll(_, _)
PassedAll(results, i) ==
    IF i > Len(results) THEN << >>
    ELSE << [index |-> i - 1, match |-> results[i].result] >>
         \o PassedAll(results, i + 1)

\* lines 179-182: enumerate().filter_map(..): the (index, match) pairs of the
\* results that hold a match, in order; indices count from 0
RECURSIVE Passed(_, _)
Passed(results, i) ==
    IF i > Len(results) THEN << >>
    ELSE IF results[i].result.some
         THEN << [index |-> i - 1, match |-> results[i].result] >>
              \o Passed(results, i + 1)
         ELSE Passed(results, i + 1)

\* faulty variant: min_by in place of max_by
RECURSIVE MinByValue(_, _, _)
MinByValue(pairs, i, acc) ==
    IF i > Len(pairs) THEN acc
    ELSE MinByValue(pairs, i + 1,
                    IF acc.match.value < pairs[i].match.value THEN acc ELSE pairs[i])

\* Iterator::max_by with a.value.total_cmp(&b.value): the running element is
\* kept only while it compares Greater than the next one
RECURSIVE MaxByValue(_, _, _)
MaxByValue(pairs, i, acc) ==
    IF i > Len(pairs) THEN acc
    ELSE MaxByValue(pairs, i + 1,
                    IF acc.match.value > pairs[i].match.value THEN acc ELSE pairs[i])

\* BestMatcher::match_template, lines 179-183
BestOf(results) ==
    LET pairs == Passed(results, 1)
    IN  IF pairs = << >> THEN NoBest
        ELSE LET m == MaxByValue(pairs, 2, pairs[1])
             IN  [some |-> TRUE, index |-> m.index, match |-> m.match]

\* lines 174-177: the map closure runs SingleMatcher on the next image
MatchCandidate ==
    /\ phase = "map"
    /\ Len(single) < MaxImages
    /\ \E s \in Surfaces :
          /\ candidates' = Append(candidates, s)
          /\ single' = Append(single, SingleMatch(s, template, options))
    /\ UNCHANGED << options, template, best, phase >>
    /\ UNCHANGED outsideMatcher

\* lines 179-188: the images are exhausted and the best result is selected
SelectBest ==
    /\ phase = "map"
    /\ best' = BestOf(single)
    /\ phase' = "done"
    /\ UNCHANGED << options, template, candidates, single >>
    /\ UNCHANGED outsideMatcher

MatcherInit ==
    /\ options \in [method : Methods, threshold : Thresholds, padding : {FALSE}]
    /\ template \in [w : Sides, h : Sides]
    /\ candidates = << >>
    /\ single = << >>
    /\ best = NoBest
    /\ phase = "map"

InitMatcher ==
    EngineInit /\ CallerIdle /\ MatcherInit /\ MultiIdle /\ PixelsIdle /\ TaskIdle /\ ControlIdle

NextMatcher == MatchCandidate \/ SelectBest

SpecMatcher == InitMatcher /\ [][NextMatcher]_vars

\* ===================================================================
\*  find_matches and MultiMatcher
\*  (core/template_matching.rs lines 36-88, matcher/mod.rs lines 124-156)
\* ===================================================================

Widths == 1..MaxWidth
Heights == 1..MaxHeight
ScanSurfaces == UNION { SurfacesOf(w, h) : w \in Widths, h \in Heights }

\* is_a_more_match_than_b: strictly smaller for the two difference methods,
\* strictly larger for the others
is_a_more_match_than_b(a, b, method) ==
    IF IsDifference(method) THEN a < b ELSE a > b

\* faulty variant: a pixel equal to the threshold is taken as a candidate
QualifiesNonStrict(value, threshold, method) ==
    IF IsDifference(method) THEN value <= threshold ELSE value >= threshold

\* line 47: the pixel is a candidate
Qualifies(value, threshold, method) ==
    is_a_more_match_than_b(value, threshold, method)

\* (a as i32 - b as i32).abs() as u32
AbsDiff(a, b) == IF a >= b THEN a - b ELSE b - a

\* faulty variant: the box reaches one pixel further
WithinBoxInclusive(m, x, y, tw, th) ==
    AbsDiff(m.x, x) <= tw /\ AbsDiff(m.y, y) <= th

\* lines 49-50: the closure given to find()
WithinBox(m, x, y, tw, th) ==
    AbsDiff(m.x, x) < tw /\ AbsDiff(m.y, y) < th

\* faulty variant: find() without rev(): the first match whose box holds
\* (x, y)
FirstWithin(ms, x, y, tw, th) ==
    LET hits == { k \in 1..Len(ms) : WithinBox(ms[k], x, y, tw, th) }
    IN  IF hits = {} THEN 0
        ELSE CHOOSE k \in hits : \A j \in hits : k <= j

\* matches.iter_mut().rev().find(..): the index of the last match whose box
\* holds (x, y), or 0
LastWithin(ms, x, y, tw, th) ==
    LET hits == { k \in 1..Len(ms) : WithinBox(ms[k], x, y, tw, th) }
    IN  IF hits = {} THEN 0
        ELSE CHOOSE k \in hits : \A j \in hits : j <= k

\* faulty variant: the location moves but the old value stays
MovedMatchKeepsValue(m, x, y, value) == [x |-> x, y |-> y, value |-> m.value]

\* lines 53-54
MovedMatch(m, x, y, value) == [x |-> x, y |-> y, value |-> value]

\* faulty variant: a match, once made, is never moved to a better pixel
ScanStepKeepsFirst(ms, x, y, value, tw, th, method, threshold) ==
    IF ~Qualifies(value, threshold, method) THEN ms
    ELSE IF LastWithin(ms, x, y, tw, th) # 0 THEN ms
    ELSE Append(ms, [x |-> x, y |-> y, value |-> value])

\* lines 46-63: the body of the loop for the pixel (x, y, value)
ScanStep(ms, x, y, value, tw, th, method, threshold) ==
    IF ~Qualifies(value, threshold, method) THEN ms
    ELSE LET k == LastWithin(ms, x, y, tw, th)
         IN  IF k # 0
             THEN IF is_a_more_match_than_b(value, ms[k].value, method)
                  THEN [ms EXCEPT ![k] = MovedMatch(ms[k], x, y, value)]
                  ELSE ms
             ELSE Append(ms, [x |-> x, y |-> y, value |-> value])

\* one insertion of a stable sort whose "is less" is the comparator of
\* lines 67-73 returning Less: m goes before the first element it is more
\* matching than, and after every other one
InsertSorted(acc, m, method) ==
    LET before == { k \in 1..Len(acc) :
                      is_a_more_match_than_b(m.value, acc[k].value, method) }
        at == IF before = {} THEN Len(acc) + 1
              ELSE CHOOSE k \in before : \A j \in before : k <= j
    IN  SubSeq(acc, 1, at - 1) \o << m >> \o SubSeq(acc, at, Len(acc))

RECURSIVE SortFrom(_, _, _, _)
SortFrom(ms, i, acc, method) ==
    IF i > Len(ms) THEN acc
    ELSE SortFrom(ms, i + 1, InsertSorted(acc, ms[i], method), method)

\* faulty variant: the matches are returned in scan order
SortByUnsorted(ms, method) == ms

\* lines 67-73: matches.sort_by(..).  slice::sort_by is a stable sort that
\* consults the comparator only for "is a Less than b", which here is
\* is_a_more_match_than_b, a strict weak order on the (non-NaN) values
SortBy(ms, method) == SortFrom(ms, 1, << >>, method)

\* the whole of find_matches, as a function of its arguments:
\* enumerate_pixels runs over the rows, and within a row over x
RECURSIVE ScanRow(_, _, _, _, _, _, _, _)
ScanRow(surface, x, y, ms, tw, th, method, threshold) ==
    IF x >= surface.w THEN ms
    ELSE LET next == ScanStep(ms, x, y, surface.px[y * surface.w + x + 1],
                              tw, th, method, threshold)
         IN  IF Len(next) >= 0
             THEN ScanRow(surface, x + 1, y, next, tw, th, method, threshold)
             ELSE next

RECURSIVE ScanRows(_, _, _, _, _, _, _)
ScanRows(surface, y, ms, tw, th, method, threshold) ==
    IF y >= surface.h THEN ms
    ELSE LET next == ScanRow(surface, 0, y, ms, tw, th, method, threshold)
         IN  IF Len(next) >= 0
             THEN ScanRows(surface, y + 1, next, tw, th, method, threshold)
             ELSE next

find_matches(surface, tw, th, method, threshold) ==
    SortBy(ScanRows(surface, 0, << >>, tw, th, method, threshold), method)

\* matcher/mod.rs lines 141-149: .filter(..).collect()
Refilter(ms, opts) ==
    LET Keep(m) == IF IsDifference(opts.method) THEN m.value < opts.threshold
                   ELSE m.value > opts.threshold
    IN  SelectSeq(ms, Keep)

\* one iteration of the loop of find_matches
ScanPixel ==
    /\ stage = "scan"
    /\ cursor <= input.w * input.h
    /\ matches' = ScanStep(matches, PixelX(input, cursor), PixelY(input, cursor),
                           input.px[cursor], template.w, template.h,
                           options.method, options.threshold)
    /\ cursor' = cursor + 1
    /\ UNCHANGED << input, scanned, multi, stage, options, template >>
    /\ UNCHANGED outsideMulti

\* the pixels are exhausted: find_matches sorts and returns
SortMatches ==
    /\ stage = "scan"
    /\ cursor > input.w * input.h
    /\ scanned' = matches
    /\ matches' = SortBy(matches, options.method)
    /\ stage' = "found"
    /\ UNCHANGED << input, cursor, multi, options, template >>
    /\ UNCHANGED outsideMulti

\* MultiMatcher filters what find_matches returned and builds its result
FilterMatches ==
    /\ stage = "found"
    /\ multi' = Refilter(matches, options)
    /\ stage' = "done"
    /\ UNCHANGED << input, cursor, matches, scanned, options, template >>
    /\ UNCHANGED outsideMulti

\* the options a caller passes: built field by field, or by method_default
CallerOptions ==
    [method : Methods, threshold : Thresholds, padding : {FALSE}]
        \cup { method_default(method) : method \in Methods }

\* MultiMatcher::match_template is called with some options and template,
\* and the engine has returned the surface
MultiInit ==
    /\ options \in CallerOptions
    /\ template \in [w : Widths, h : Heights]
    /\ candidates = << >>
    /\ single = << >>
    /\ best = NoBest
    /\ phase = "idle"
    /\ input \in ScanSurfaces
    /\ cursor = 1
    /\ matches = << >>
    /\ scanned = << >>
    /\ multi = << >>
    /\ stage = "scan"

InitMulti == EngineInit /\ CallerIdle /\ MultiInit /\ PixelsIdle /\ TaskIdle /\ ControlIdle

NextMulti == ScanPixel \/ SortMatches \/ FilterMatches

SpecMulti == InitMulti /\ [][NextMulti]_vars

\* ===================================================================
\*  SingleMatcher on images given pixel by pixel: the calls of one
\*  thread, each taken as one step through the engine and the shader
\*  (matcher/mod.rs lines 64-114, template_matching.rs lines 362-622)
\* ===================================================================

Pixels == 0..MaxPixel
PixelImages ==
    UNION { { [w |-> w, h |-> h, px |-> p] : p \in [1..(w * h) -> Pixels] } :
            w \in Sides, h \in Sides }

\* the sub-rectangles of an image
RegionsOf(img) ==
    { r \in [x : 0..(img.w - 1), y : 0..(img.h - 1), w : 1..img.w, h : 1..img.h] :
        r.x + r.w <= img.w /\ r.y + r.h <= img.h }

\* the template that is exactly the region r of the image
Crop(img, r) ==
    [w |-> r.w, h |-> r.h,
     px |-> [i \in 1..(r.w * r.h) |->
               img.px[(r.y + ((i - 1) \div r.w)) * img.w + r.x + ((i - 1) % r.w) + 1]]]

RECURSIVE SumOver(_, _)
SumOver(f, n) == IF n = 0 THEN 0 ELSE f[n] + SumOver(f, n - 1)

\* entry point main_sqdiff of the shader: every invocation (x, y) inside
\* the result computes the sum of squared differences over the template
\* window.  The shader knows the image and template only as flat storage
\* buffers; all widths and heights are those of the uniform buffer.
main_sqdiff(inputData, templateData, u) ==
    LET rw == u.image_width - u.template_width + 1
        rh == u.image_height - u.template_height + 1
        n == u.template_width * u.template_height
        Cell(k) ==
            LET x == (k - 1) % rw
                y == (k - 1) \div rw
                diff == [i \in 1..n |->
                           LET a == inputData[(y + ((i - 1) \div u.template_width))
                                                * u.image_width
                                              + x + ((i - 1) % u.template_width) + 1]
                               b == templateData[i]
                           IN  (a - b) * (a - b)]
            IN  SumOver(diff, n)
    IN  [k \in 1..(rw * rh) |-> Cell(k)]

\* vec![0.0; result_w * result_h]
Zeros(n) == [k \in 1..n |-> 0]

\* SingleMatcher::match_template with a template cut from the image: the
\* public match_template (construction on first use, lock), one pass of the
\* engine (buffers, bind group and uniforms, dispatch, readback), then the
\* extremes and the threshold test.  A panic on the empty channel poisons
\* the lock for the calls after it.
MatchPixels ==
    /\ calls < MaxCalls
    /\ ~poisoned
    /\ \E img \in PixelImages, signal \in Signals :
       \E r \in RegionsOf(img) :
          LET tpl == Crop(img, r)
              res == ResultDims(PaddedDims(img, tpl, options.padding), tpl)
              p == PreparedBuffers(IF once = "ready" THEN buf ELSE NewBuffers,
                                   IF once = "ready" THEN bindGroup ELSE NoBindGroup,
                                   img, tpl, ResultBufSize(res))
              u == IF p.update THEN UniformsOf(img, tpl)
                   ELSE uniforms
              data == IF signal = "ok" THEN main_sqdiff(img.px, tpl.px, u)
                      ELSE Zeros(res.w * res.h)
              surface == [w |-> res.w, h |-> res.h, px |-> data]
              found == SingleMatch(surface, tpl, options)
          IN  /\ screen' = img
              /\ region' = r
              /\ buf' = p.buf
              /\ uniforms' = u
              /\ bindGroup' = IF p.update THEN CreateNewBindGroup(p.buf)
                              ELSE bindGroup
              /\ IF signal = "empty"
                 THEN /\ outcome' = [NoOutcome EXCEPT !.kind = "try_recv is Err(Empty)"]
                      /\ poisoned' = TRUE
                 ELSE /\ outcome' = [kind |-> "returned", result |-> found.result,
                                     matched_image |-> found.matched_image]
                      /\ poisoned' = poisoned
    /\ calls' = calls + 1
    /\ once' = "ready"
    /\ constructed' = IF once = "ready" THEN constructed ELSE constructed + 1
    /\ UNCHANGED << options, prepass, readback >>
    /\ UNCHANGED outsidePixels

\* the caller's options: SumOfSquaredDifference with a positive threshold
PixelsInit ==
    /\ options \in [method : { "SumOfSquaredDifference" },
                    threshold : { th \in Thresholds : th > 0 },
                    padding : { FALSE }]
    /\ template = [w |-> 1, h |-> 1]
    /\ candidates = << >>
    /\ single = << >>
    /\ best = NoBest
    /\ phase = "idle"
    /\ PixelsIdle

InitPixels == EngineInit /\ CallerIdle /\ PixelsInit /\ MultiIdle /\ TaskIdle /\ ControlIdle

NextPixels == MatchPixels

SpecPixels == InitPixels /\ [][NextPixels]_vars

\* ===================================================================
\*  A CorrelationCoefficient call on images given pixel by pixel: the
\*  calls of one thread, pass by pass
\*  (template_matching.rs lines 362-622)
\* ===================================================================

\* lines 421-436: the image extended with zeros to the right and below
PaddedImage(img, tpl, padding) ==
    IF ~padding THEN img
    ELSE LET d == PaddedDims(img, tpl, TRUE)
         IN  [w |-> d.w, h |-> d.h,
              px |-> [i \in 1..(d.w * d.h) |->
                        LET x == (i - 1) % d.w
                            y == (i - 1) \div d.w
                        IN  IF x >= img.w \/ y >= img.h THEN 0
                            ELSE img.px[y * img.w + x + 1]]]

\* lines 376-380: the averaging kernel, of the template's size.  Its
\* weights are written in units of 1 / (template_w * template_h), so a
\* surface computed with it holds the window sums, that is the local
\* averages in the same units.
AvgKernel(tpl) == [w |-> tpl.w, h |-> tpl.h, px |-> [i \in 1..(tpl.w * tpl.h) |-> 1]]

\* entry point main_ccorr of the shader: the dot product of the template
\* with the window at (x, y); widths and heights are those of the uniforms
main_ccorr(inputData, templateData, u) ==
    LET rw == u.image_width - u.template_width + 1
        rh == u.image_height - u.template_height + 1
        n == u.template_width * u.template_height
        Cell(k) ==
            LET x == (k - 1) % rw
                y == (k - 1) \div rw
                prod == [i \in 1..n |->
                           inputData[(y + ((i - 1) \div u.template_width))
                                        * u.image_width
                                      + x + ((i - 1) % u.template_width) + 1]
                             * templateData[i]]
            IN  SumOver(prod, n)
    IN  [k \in 1..(rw * rh) |-> Cell(k)]

\* entry point main_ccoeff: cross-correlation of the zero-mean inputs
main_ccoeff(inputData, templateData, u) == main_ccorr(inputData, templateData, u)

\* lines 497-513: the pipeline of the method
Pipeline(method, inputData, templateData, u) ==
    IF method = "SumOfSquaredDifference" THEN main_sqdiff(inputData, templateData, u)
    ELSE IF method = "CrossCorrelation" THEN main_ccorr(inputData, templateData, u)
    ELSE main_ccoeff(inputData, templateData, u)

\* lines 421-619, one pass on the engine state (b, bg, u0): padding, result
\* size, buffers, bind group and uniforms, dispatch, readback
PixelPass(b, bg, u0, image, tpl, method, padding, signal) ==
    LET eff == PaddedImage(image, tpl, padding)
        res == ResultDims(eff, tpl)
        p == PreparedBuffers(b, bg, eff, tpl, ResultBufSize(res))
        u == IF p.update THEN UniformsOf(eff, tpl) ELSE u0
        data == IF signal = "ok" THEN Pipeline(method, eff.px, tpl.px, u)
                ELSE Zeros(res.w * res.h)
    IN  IF BufferTooLarge(ResultBufSize(res))
        THEN [fault |-> "buffer", buf |-> p.partial, bindGroup |-> bg,
              uniforms |-> u0, out |-> NoImage]
        ELSE [fault |-> IF res.w < 0 \/ res.h < 0 THEN "dispatch" ELSE "none",
              buf |-> p.buf,
              bindGroup |-> IF p.update THEN CreateNewBindGroup(p.buf) ELSE bg,
              uniforms |-> u,
              out |-> IF res.w < 0 \/ res.h < 0 THEN NoImage
                      ELSE [w |-> res.w, h |-> res.h, px |-> data]]

\* lines 394-417: v.zip(avg).map(v - avg), then from_vec with the
\* dimensions of v.  In the units of the kernel, v - avg is n * v - sum.
ZeroMean(img, avg, n) ==
    LET len == IF Len(img.px) <= Len(avg.px) THEN Len(img.px) ELSE Len(avg.px)
    IN  [w |-> img.w, h |-> img.h,
         px |-> [i \in 1..len |-> n * img.px[i] - avg.px[i]]]

\* the public match_template is called with CorrelationCoefficient: the
\* engine is constructed on first use and locked
CoeffCall ==
    /\ prepass.pos = "idle"
    /\ calls < MaxCalls
    /\ ~poisoned
    /\ \E img \in PixelImages, tpl \in PixelImages, padding \in BOOLEAN :
          prepass' = [NoPrePass EXCEPT !.pos = "pre1", !.img = img, !.tpl = tpl,
                                       !.padding = padding]
    /\ calls' = calls + 1
    /\ once' = "ready"
    /\ constructed' = IF once = "ready" THEN constructed ELSE constructed + 1
    /\ UNCHANGED << poisoned, buf, uniforms, bindGroup >>
    /\ UNCHANGED outsideMeans

\* the engine after a pass, and what the pass left in the call
AfterPass(r, signal, next) ==
    /\ buf' = r.buf
    /\ bindGroup' = r.bindGroup
    /\ uniforms' = r.uniforms
    /\ IF r.fault # "none" \/ signal = "empty"
       THEN /\ prepass' = [prepass EXCEPT !.pos = "panicked"]
            /\ poisoned' = TRUE
       ELSE /\ prepass' = next
            /\ poisoned' = poisoned

\* lines 381-386: the image against the averaging kernel
CoeffPrePassImage ==
    /\ prepass.pos = "pre1"
    /\ \E signal \in Signals :
          LET r == PixelPass(buf, bindGroup, uniforms, prepass.img,
                             AvgKernel(prepass.tpl), "CrossCorrelation", TRUE, signal)
          IN  AfterPass(r, signal,
                        [prepass EXCEPT !.pos = "pre2", !.avg_image = r.out,
                                        !.signals = Append(@, signal)])
    /\ UNCHANGED << once, constructed, calls >>
    /\ UNCHANGED outsideMeans

\* lines 387-392: the template against the averaging kernel
CoeffPrePassTemplate ==
    /\ prepass.pos = "pre2"
    /\ \E signal \in Signals :
          LET r == PixelPass(buf, bindGroup, uniforms, prepass.tpl,
                             AvgKernel(prepass.tpl), "CrossCorrelation", TRUE, signal)
          IN  AfterPass(r, signal,
                        [prepass EXCEPT !.pos = "main", !.avg_template = r.out,
                                        !.signals = Append(@, signal)])
    /\ UNCHANGED << once, constructed, calls >>
    /\ UNCHANGED outsideMeans

\* lines 394-619: the subtraction of the local averages and the main pass
\* on the zero-mean image and template.  A template larger than the
\* effective image makes the result size overflow: a panic in a build with
\* overflow checks, a wrapped size in one without.
CoeffMain ==
    /\ prepass.pos = "main"
    /\ LET n == prepass.tpl.w * prepass.tpl.h
           image == ZeroMean(prepass.img, prepass.avg_image, n)
           tpl == ZeroMean(prepass.tpl, prepass.avg_template, n)
       IN  \/ /\ Underflows(PaddedDims(image, tpl, prepass.padding), tpl)
              /\ prepass' = [prepass EXCEPT !.pos = "panicked"]
              /\ poisoned' = TRUE
              /\ UNCHANGED << buf, bindGroup, uniforms >>
           \/ \E signal \in Signals :
                 LET r == PixelPass(buf, bindGroup, uniforms, image, tpl,
                                    "CorrelationCoefficient", prepass.padding, signal)
                 IN  AfterPass(r, signal,
                               [prepass EXCEPT !.pos = "done", !.out = r.out,
                                               !.signals = Append(@, signal)])
    /\ UNCHANGED << once, constructed, calls >>
    /\ UNCHANGED outsideMeans

\* the surface goes to the caller and the lock is released
CoeffReturn ==
    /\ prepass.pos = "done"
    /\ prepass' = NoPrePass
    /\ UNCHANGED << once, constructed, calls, poisoned, buf, uniforms, bindGroup >>
    /\ UNCHANGED outsideMeans

MeansInit == PixelsIdle

InitMeans ==
    EngineInit /\ CallerIdle /\ MatcherIdle /\ MultiIdle /\ MeansInit /\ TaskIdle /\ ControlIdle

NextMeans ==
    \/ CoeffCall
    \/ CoeffPrePassImage
    \/ CoeffPrePassTemplate
    \/ CoeffMain
    \/ CoeffReturn

SpecMeans == InitMeans /\ [][NextMeans]_vars

\* ===================================================================
\*  SingleMatcher with any method and options: the calls of one thread,
\*  each taken as one step through the engine
\*  (matcher/mod.rs lines 64-114, template_matching.rs lines 362-622)
\* ===================================================================

\* faulty variant: the staging bytes are used whatever the map signal was
ReadBackIgnoresSignal(signal, mapped, n) == mapped

\* lines 603-618: Ok(()) copies the mapped bytes, Err(_) gives
\* vec![0.0; result_w * result_h]
ReadBack(signal, mapped, n) == IF signal = "ok" THEN mapped ELSE Zeros(n)

\* lines 440-495 of one pass, on the engine state st
EngineAfterPass(st, eff, tpl) ==
    LET Updated(p) ==
            [buf |-> p.buf,
             bindGroup |-> IF p.update THEN CreateNewBindGroup(p.buf)
                           ELSE st.bindGroup,
             uniforms |-> IF p.update THEN UniformsOf(eff, tpl) ELSE st.uniforms]
    IN  CHOOSE after \in
            { Updated(p) : p \in { PreparedBuffers(st.buf, st.bindGroup, eff, tpl,
                                                   ResultBufSize(ResultDims(eff, tpl))) } } :
            TRUE

\* the passes of one call, in order: [image, template] after padding
PassesOf(img, tpl, method, padding) ==
    LET main == << [eff |-> PaddedDims(img, tpl, padding), tpl |-> tpl] >>
    IN  IF NeedsPrePass(method)
        THEN << [eff |-> PaddedDims(img, tpl, TRUE), tpl |-> tpl],
                [eff |-> PaddedDims(tpl, tpl, TRUE), tpl |-> tpl] >> \o main
        ELSE main

\* the engine after the first n of the passes (each pass is applied to the
\* value of the state the pass before it left)
RECURSIVE EngineAfter(_, _, _)
EngineAfter(st, passes, n) ==
    IF n = 0 THEN st
    ELSE CHOOSE after \in { EngineAfterPass(before, passes[n].eff, passes[n].tpl) :
                               before \in { EngineAfter(st, passes, n - 1) } } : TRUE

\* SingleMatcher::match_template by a caller that meets the dimension
\* precondition: the public match_template (construction on first use,
\* lock), the passes of the method, then the extremes and the threshold
\* test.  What the staging buffer holds is any surface of the result's
\* size, whether or not it could be mapped.  Each
\* pass reads its map signal: `lost` is the pass that found the channel
\* empty (0 for none), which panics and poisons the lock; `signal` is what
\* the main pass received.  A pre-pass whose mapping failed goes on with
\* zeros for its averages, which changes nothing this model keeps.
SingleMatcherCall ==
    /\ calls < MaxCalls
    /\ ~poisoned
    /\ \E iw \in Sides, ih \in Sides, tw \in Sides, th \in Sides :
          LET img == [w |-> iw, h |-> ih]
              tpl == [w |-> tw, h |-> th]
              passes == PassesOf(img, tpl, options.method, options.padding)
              res == ResultDims(PaddedDims(img, tpl, options.padding), tpl)
              now == [buf |-> buf, bindGroup |-> bindGroup, uniforms |-> uniforms]
          IN  /\ options.padding \/ ~Underflows(img, tpl)
              /\ template' = tpl
              /\ \/ \E lost \in 1..Len(passes) :
                    \E st \in { EngineAfter(now, passes, lost) } :
                           /\ buf' = st.buf
                           /\ bindGroup' = st.bindGroup
                           /\ uniforms' = st.uniforms
                           /\ readback' = [signal |-> "empty", img |-> img, tpl |-> tpl]
                           /\ outcome' = [NoOutcome EXCEPT
                                             !.kind = "try_recv is Err(Empty)"]
                           /\ poisoned' = TRUE
                 \/ \E st \in { EngineAfter(now, passes, Len(passes)) } :
                    \E signal \in { "ok", "err" } :
                    \E mapped \in SurfacesOf(res.w, res.h) :
                    \E found \in
                          { SingleMatch([w |-> res.w, h |-> res.h,
                                         px |-> ReadBack(signal, mapped.px,
                                                         res.w * res.h)],
                                        tpl, options) } :
                           /\ buf' = st.buf
                           /\ bindGroup' = st.bindGroup
                           /\ uniforms' = st.uniforms
                           /\ readback' = [signal |-> signal, img |-> img, tpl |-> tpl]
                           /\ outcome' = [kind |-> "returned",
                                          result |-> found.result,
                                          matched_image |-> found.matched_image]
                           /\ poisoned' = poisoned
    /\ calls' = calls + 1
    /\ once' = "ready"
    /\ constructed' = IF once = "ready" THEN constructed ELSE constructed + 1
    /\ UNCHANGED options
    /\ UNCHANGED outsideSingle

\* the caller's options
SingleInit ==
    /\ options \in [method : Methods, threshold : Thresholds, padding : BOOLEAN]
    /\ template = [w |-> 1, h |-> 1]
    /\ candidates = << >>
    /\ single = << >>
    /\ best = NoBest
    /\ phase = "idle"
    /\ PixelsIdle

InitSingle == EngineInit /\ CallerIdle /\ SingleInit /\ MultiIdle /\ TaskIdle /\ ControlIdle

NextSingle == SingleMatcherCall

SpecSingle == InitSingle /\ [][NextSingle]_vars

\* ===================================================================
\*  Task and TaskStep  (src/task.rs)
\* ===================================================================

\* Option<T>: None, or Some(v)
None == [some |-> FALSE, v |-> 0]
Some(v) == [some |-> TRUE, v |-> v]
unwrap_or(o, default) == IF o.some THEN o.v ELSE default

\* struct TaskStep.  skip_if_failed holds Some(0) for Some(false) and Some(1)
\* for Some(true); delay_ok is false for a delay_sec that
\* Duration::from_secs_f32 rejects (negative, not finite).  The action is
\* opaque: each execution returns Ok or Err.
TaskSteps ==
    [delay_ok : BOOLEAN,
     skip_if_failed : { None, Some(0), Some(1) },
     repeat : { None } \cup { Some(r) : r \in 0..MaxRepeat },
     retry : { None } \cup { Some(n) : n \in (0 - 1)..MaxRetry }]

Tasks == UNION { [1..n -> TaskSteps] : n \in 0..MaxSteps }

\* faulty variant: skip_if_failed is not consulted
StepAbortsAlways(res, s) == res = "err"

\* line 167: res.is_err() && !step.skip_if_failed.unwrap_or(false)
StepAborts(res, s) == res = "err" /\ unwrap_or(s.skip_if_failed, 0) = 0

\* faulty variant: a negative retry is taken for no retry at all
RetriesAgainNeverNegative(s, n, res) ==
    IF ~s.retry.some THEN FALSE
    ELSE IF s.retry.v < 0 THEN FALSE
    ELSE n - 1 < s.retry.v /\ res = "err"

\* faulty variant: the retry loop runs one time too many
RetriesAgainOnceMore(s, n, res) ==
    IF ~s.retry.some THEN FALSE
    ELSE IF s.retry.v < 0 THEN res = "err"
    ELSE n - 1 <= s.retry.v /\ res = "err"

\* lines 186-202, after `tries` executions of the action in this round, the
\* last of which returned res: the closure executes the action once more
RetriesAgain(s, n, res) ==
    IF ~s.retry.some THEN FALSE
    ELSE IF s.retry.v < 0 THEN res = "err"
    ELSE n - 1 < s.retry.v /\ res = "err"

\* faulty variant: the repeat loop does not stop at a failed round
RepeatsAgainAfterError(s, done, res) ==
    done < unwrap_or(s.repeat, 0)

\* lines 208-214, after `done` repeats: exec() is called once more
RepeatsAgain(s, done, res) ==
    done < unwrap_or(s.repeat, 0) /\ res = "ok"

\* lines 146-166 and 181: the loop of Task::execute takes the next step and
\* TaskStep::execute sleeps for its delay; from_secs_f32 panics on a
\* delay it cannot represent
StartStep ==
    /\ taskPc = "loop"
    /\ stepIx <= Len(steps)
    /\ IF steps[stepIx].delay_ok
       THEN /\ taskPc' = "exec"
            /\ taskRet' = taskRet
       ELSE /\ taskPc' = "done"
            /\ taskRet' = "panicked"
    /\ round' = 0
    /\ tries' = 0
    /\ UNCHANGED << steps, stepIx, executed, attempts, stepResults >>
    /\ UNCHANGED outsideTask

\* one execution of the step's action, and everything up to the next one:
\* the retry loop, the repeat loop, the return of TaskStep::execute and the
\* test of line 167
Attempt ==
    /\ taskPc = "exec"
    /\ Len(executed) < MaxAttempts
    /\ \E res \in { "ok", "err" } :
          LET s == steps[stepIx]
          IN  /\ executed' = Append(executed, stepIx)
              /\ attempts' = Append(attempts, [step |-> stepIx, round |-> round,
                                               res |-> res])
              /\ IF RetriesAgain(s, tries + 1, res)
                 THEN /\ tries' = tries + 1
                      /\ UNCHANGED << stepIx, round, taskPc, stepResults, taskRet >>
                 ELSE IF RepeatsAgain(s, round, res)
                 THEN /\ round' = round + 1
                      /\ tries' = 0
                      /\ UNCHANGED << stepIx, taskPc, stepResults, taskRet >>
                 ELSE /\ stepResults' = Append(stepResults, res)
                      /\ round' = 0
                      /\ tries' = 0
                      /\ IF StepAborts(res, s)
                         THEN /\ taskRet' = res
                              /\ taskPc' = "done"
                              /\ stepIx' = stepIx
                         ELSE /\ taskRet' = taskRet
                              /\ taskPc' = "loop"
                              /\ stepIx' = stepIx + 1
    /\ UNCHANGED steps
    /\ UNCHANGED outsideTask

\* line 171: the steps are exhausted
ReturnOk ==
    /\ taskPc = "loop"
    /\ stepIx > Len(steps)
    /\ taskRet' = "ok"
    /\ taskPc' = "done"
    /\ UNCHANGED << steps, stepIx, round, tries, executed, attempts, stepResults >>
    /\ UNCHANGED outsideTask

\* Task::execute is called on some task
TaskInit ==
    /\ steps \in Tasks
    /\ stepIx = 1
    /\ round = 0
    /\ tries = 0
    /\ taskPc = "loop"
    /\ executed = << >>
    /\ attempts = << >>
    /\ stepResults = << >>
    /\ taskRet = "none"

InitTask ==
    EngineInit /\ CallerIdle /\ MatcherIdle /\ MultiIdle /\ PixelsIdle /\ TaskInit /\ ControlIdle

NextTask == StartStep \/ Attempt \/ ReturnOk

SpecTask == InitTask /\ [][NextTask]_vars

\* Task::execute is sequential code: it takes its next step whenever it has
\* one, every execution of an action returning
SpecTaskLive == InitTask /\ [][NextTask]_vars /\ WF_vars(NextTask)

\* ===================================================================
\*  NavGraph  (src/nav.rs)
\* ===================================================================

\* the graph after insert_node and insert_edge: nodes 1..MaxNodes, and the
\* edges in insertion order; parallel edges and loops are allowed
Nodes == 1..MaxNodes
NavGraphs == UNION { [1..n -> [from : Nodes, to : Nodes]] : n \in 0..MaxEdges }

\* the node sequences that follow edges of g from one node to another
NodePaths(g, from, to) ==
    { p \in UNION { [1..n -> Nodes] : n \in 1..MaxNodes } :
        /\ p[1] = from /\ p[Len(p)] = to
        /\ \A k \in 1..(Len(p) - 1) :
              \E e \in 1..Len(g) : g[e].from = p[k] /\ g[e].to = p[k + 1] }

\* astar(&self.inner, from, |n| n == to, |_| 1, |_| 0): a path of least cost
\* for edges of cost 1 each, or None (here: no path at all)
astar(g, from, to) ==
    { p \in NodePaths(g, from, to) :
        \A q \in NodePaths(g, from, to) : Len(p) <= Len(q) }

\* edges_connecting(a, b)
edges_connecting(g, a, b) == { e \in 1..Len(g) : g[e].from = a /\ g[e].to = b }

\* lines 72-76: the ids are looked up and the path is searched
NavSearch ==
    /\ nav.pc = "search"
    /\ IF astar(nav.edges, nav.from, nav.to) = {}
       THEN nav' = [nav EXCEPT !.pc = "done", !.ret = "unreachable"]
       ELSE \E p \in astar(nav.edges, nav.from, nav.to) :
               nav' = [nav EXCEPT !.pc = "walk", !.path = p, !.pos = 1]
    /\ UNCHANGED outsideNav

\* faulty variant: the result of the edge's action is dropped
NavEdgeIgnoresError ==
    /\ nav.pc = "walk"
    /\ nav.pos < Len(nav.path)
    /\ \E e \in edges_connecting(nav.edges, nav.path[nav.pos], nav.path[nav.pos + 1]) :
       \E res \in { "ok", "err" } :
          nav' = [nav EXCEPT !.ran = Append(@, [edge |-> e, res |-> res]),
                             !.pos = @ + 1]
    /\ UNCHANGED outsideNav

\* lines 77-84: the next window of the path: the first edge that connects
\* its two nodes is taken and its action is run; `?` returns its error
NavEdge ==
    /\ nav.pc = "walk"
    /\ nav.pos < Len(nav.path)
    /\ \E e \in edges_connecting(nav.edges, nav.path[nav.pos], nav.path[nav.pos + 1]) :
       \E res \in { "ok", "err" } :
          nav' = [nav EXCEPT !.ran = Append(@, [edge |-> e, res |-> res]),
                             !.pos = IF res = "ok" THEN @ + 1 ELSE @,
                             !.pc = IF res = "ok" THEN @ ELSE "done",
                             !.ret = IF res = "ok" THEN @ ELSE "err"]
    /\ UNCHANGED outsideNav

\* line 85: the windows are exhausted
NavReturn ==
    /\ nav.pc = "walk"
    /\ nav.pos = Len(nav.path)
    /\ nav' = [nav EXCEPT !.pc = "done", !.ret = "ok"]
    /\ UNCHANGED outsideNav

\* nav(from, to) is called on some graph
NavInit ==
    \E g \in NavGraphs, from \in Nodes, to \in Nodes :
        nav = [NoNav EXCEPT !.pc = "search", !.edges = g, !.from = from, !.to = to]

InitNav ==
    /\ EngineInit /\ CallerIdle /\ MatcherIdle /\ MultiIdle /\ PixelsIdle /\ TaskIdle
    /\ NavInit /\ app = NoApp /\ touch = NoTouch

NextNav == NavSearch \/ NavEdge \/ NavReturn

SpecNav == InitNav /\ [][NextNav]_vars

\* ===================================================================
\*  AndroidController, App and MaaTouch  (packages/ap-controller)
\* ===================================================================

\* a call of the device layer made by from_device, with its result
Did(op, res) == [op |-> op, res |-> res]
AppStep(next, op, res, ret) ==
    [app EXCEPT !.pc = next, !.log = Append(@, Did(op, res)), !.ret = ret]

\* android/mod.rs line 29: device.screencap()?
Screencap ==
    /\ app.pc = "screencap"
    /\ \E res \in { "ok", "err" } :
          app' = IF res = "ok" THEN AppStep("check", "screencap", res, app.ret)
                 ELSE AppStep("done", "screencap", res, "err")
    /\ UNCHANGED touch
    /\ UNCHANGED outsideController

\* faulty variant: the result of the second check is not looked at
AppCheckOnceOnly ==
    /\ app.pc \in { "check", "recheck" }
    /\ \E res \in { "ok", "err" } :
          app' = IF res = "ok" \/ app.pc = "recheck"
                 THEN AppStep("build", "check", res, app.ret)
                 ELSE AppStep("push", "check", res, app.ret)
    /\ UNCHANGED touch
    /\ UNCHANGED outsideController

\* app.rs lines 19 and 21: Self::check(device), first and second time
AppCheck ==
    /\ app.pc \in { "check", "recheck" }
    /\ \E res \in { "ok", "err" } :
          app' = IF res = "ok" THEN AppStep("build", "check", res, app.ret)
                 ELSE IF app.pc = "check" THEN AppStep("push", "check", res, app.ret)
                 ELSE AppStep("done", "check", res, "err")
    /\ UNCHANGED touch
    /\ UNCHANGED outsideController

\* app.rs line 20: Self::push(device)?
AppPush ==
    /\ app.pc = "push"
    /\ \E res \in { "ok", "err" } :
          app' = IF res = "ok" THEN AppStep("recheck", "push", res, app.ret)
                 ELSE AppStep("done", "push", res, "err")
    /\ UNCHANGED touch
    /\ UNCHANGED outsideController

\* app.rs line 23: Self::build(device); android/mod.rs lines 31-38: the
\* MaaTouch goes into its Mutex and the controller is returned
AppBuild ==
    /\ app.pc = "build"
    /\ \E res \in { "ok", "err" } :
          app' = AppStep("done", "build", res, res)
    /\ UNCHANGED touch
    /\ UNCHANGED outsideController

\* maatouch.rs lines 299-307 and 309-356: the commands a gesture writes, in
\* order: d(own), m(ove), u(p) for contact 0, and c(ommit)
Script(kind, moves) ==
    IF kind = "click" THEN << "d", "c", "u", "c" >>
    ELSE << "d", "c" >>
         \o [k \in 1..(2 * moves) |-> IF k % 2 = 1 THEN "m" ELSE "c"]
         \o << "c", "u", "c" >>

\* a thread calls click or swipe on the controller
TouchCall(t) ==
    /\ app.pc = "done" /\ app.ret = "ok"
    /\ touch.pc[t] = "idle"
    /\ Len(touch.results) < MaxGestures
    /\ \E kind \in { "click", "swipe" } :
       \E moves \in (IF kind = "click" THEN { 0 } ELSE 0..MaxMoves) :
          touch' = [touch EXCEPT
                      !.pc[t] = "lock",
                      !.cur[t] = [id |-> Len(touch.results) + 1, kind |-> kind,
                                  moves |-> moves, pos |-> 1],
                      !.results = Append(@, "none")]
    /\ UNCHANGED app
    /\ UNCHANGED outsideController

\* faulty variant: the gesture starts without the Mutex
TouchLockUnguarded(t) ==
    /\ touch.pc[t] = "lock"
    /\ touch' = [touch EXCEPT !.pc[t] = "write", !.lock = t]
    /\ UNCHANGED app
    /\ UNCHANGED outsideController

\* android/mod.rs lines 158 and 169-171: self.maa_touch.lock().unwrap();
\* unwrap panics when the Mutex is poisoned
TouchLock(t) ==
    /\ touch.pc[t] = "lock"
    /\ touch.lock = NoThread
    /\ touch' = IF touch.poisoned
                THEN [touch EXCEPT !.pc[t] = "idle", !.cur[t] = NoGesture,
                                   !.results[touch.cur[t].id] = "panicked"]
                ELSE [touch EXCEPT !.pc[t] = "write", !.lock = t]
    /\ UNCHANGED app
    /\ UNCHANGED outsideController

\* the gesture ends: the guard is dropped, by a panic with poisoning
TouchEnd(t, how) ==
    [touch EXCEPT !.pc[t] = "idle", !.cur[t] = NoGesture,
                  !.lock = IF @ = t THEN NoThread ELSE @,
                  !.poisoned = (@ \/ how = "panicked"),
                  !.results[touch.cur[t].id] = how]

\* one command of the gesture: write_command writes the line, or fails and
\* `?` returns the error; the coordinate arithmetic of down and mv (lines
\* 270 and 281) overflows for extreme coordinates, which panics in a build
\* with overflow checks
TouchWrite(t) ==
    /\ touch.pc[t] = "write"
    /\ LET g == touch.cur[t]
           script == Script(g.kind, g.moves)
           cmd == script[g.pos]
       IN  \E how \in { "ok", "err" } \cup
                      (IF cmd \in { "d", "m" } THEN { "panicked" } ELSE { }) :
              IF how # "ok" THEN touch' = TouchEnd(t, how)
              ELSE LET written == [touch EXCEPT
                                     !.stream = Append(@, [g |-> g.id, cmd |-> cmd])]
                   IN  IF g.pos = Len(script)
                       THEN touch' = [written EXCEPT
                                        !.pc[t] = "idle", !.cur[t] = NoGesture,
                                        !.lock = IF @ = t THEN NoThread ELSE @,
                                        !.results[g.id] = "ok"]
                       ELSE touch' = [written EXCEPT !.cur[t].pos = @ + 1]
    /\ UNCHANGED app
    /\ UNCHANGED outsideController

\* AndroidController::from_device is called
ControllerInit == app = [NoApp EXCEPT !.pc = "screencap"] /\ touch = NoTouch

InitController ==
    /\ EngineInit /\ CallerIdle /\ MatcherIdle /\ MultiIdle /\ PixelsIdle /\ TaskIdle
    /\ nav = NoNav /\ ControllerInit

NextController ==
    \/ Screencap
    \/ AppCheck
    \/ AppPush
    \/ AppBuild
    \/ \E t \in Threads : TouchCall(t) \/ TouchLock(t) \/ TouchWrite(t)

SpecController == InitController /\ [][NextController]_vars

\* ===================================================================
\*  Properties of the engine, checked under Spec
\* ===================================================================

\* the buffer set and the bind group agree: the bind group was built from
\* the buffers the engine holds now, result and staging have one size, and
\* no pass is in flight
EngineConsistent ==
    /\ bindGroup = CreateNewBindGroup(buf)
    /\ buf.result.size = buf.staging.size
    /\ (buf.input.id = 0) = (buf.staging.id = 0)
    /\ inflight = NoPass

OneMatchInEngine ==
    \A t \in Threads :
        InEngine(t) => lock = t /\ \A u \in Threads \ {t} : ~InEngine(u)

\* a step that changes a buffer, the uniforms, the bind group or the pass in
\* flight is a step of the thread that holds the lock, inside its call
EngineStepByHolder ==
    << buf, uniforms, bindGroup, inflight >>' # << buf, uniforms, bindGroup, inflight >>
        => /\ lock # NoThread
           /\ InEngine(lock)
           /\ stack'[lock] # stack[lock]

\* C1: at most one matching operation is inside the engine at any time.  A
\* thread is inside Matcher::match_template only while it holds the lock and
\* no other thread is inside; buffers, uniforms, bind group and the pass in
\* flight change only in steps of the lock holder; and whenever the lock is
\* free (the only time another thread can get at the engine) the buffer set
\* and the bind group are whole.
C1_Serialized ==
    /\ [](OneMatchInEngine /\ (lock = NoThread => EngineConsistent))
    /\ [][EngineStepByHolder]_vars

\* one thread waits for the lock while another, which reallocated buffers
\* in this pass, waits for its readback
C1_Witness ==
    \E t \in Threads, u \in Threads :
        /\ t # u
        /\ AtTop(t, "polled") /\ Top(t).update
        /\ pc[u] = "lock"

\* C17: the Matcher engine is constructed at most once per process, on the
\* first match_template call and not before.  Matcher::new has run at most
\* once, and exactly once when the cell is set; before the first call the
\* cell is unset; while the cell is being initialised exactly one thread is
\* running Matcher::new, however many called; and every thread that has got
\* as far as the lock is using the one engine that was constructed.
C17_ConstructedOnce ==
    /\ constructed <= 1
    /\ (constructed = 1) <=> (once = "ready")
    /\ calls = 0 => once = "uninit"
    /\ Cardinality({ t \in Threads : pc[t] = "construct" })
          = IF once = "running" THEN 1 ELSE 0
    /\ \A t \in Threads :
          pc[t] \in { "lock", "in", "returned", "panicked" }
              => once = "ready" /\ constructed = 1

\* two threads made their first call concurrently: one constructed the
\* engine and is at the lock, the other is still inside get_or_init
C17_Witness ==
    \E t \in Threads, u \in Threads :
        /\ t # u /\ calls = 2 /\ constructed = 1
        /\ pc[t] = "lock" /\ pc[u] = "once"

\* the four Option<wgpu::Buffer> fields, and the byte size a pass requires
\* of each
BufferNames == { "input", "template", "result", "staging" }
RequiredSize(f, name) ==
    IF name = "input" THEN f.eff.w * f.eff.h * F32Size
    ELSE IF name = "template" THEN f.tpl.w * f.tpl.h * F32Size
    ELSE f.res.w * f.res.h * F32Size

\* thread t completes the buffer update of its pass in this step
UpdatesBuffers(t) == AtTop(t, "buffers") /\ pc'[t] = "in" /\ stack'[t] # stack[t]

\* C15: in every pass, each of the input, template, result and staging
\* buffers is newly allocated (a new buffer object, not one the engine or
\* its bind group still holds) if and only if no buffer existed or the
\* existing one's byte size differs from the size this pass requires;
\* otherwise the existing buffer object is kept.  Either way the field ends
\* with the required size, and buffers change in no other step of a call.
C15_ReallocIffSizeDiffers ==
    [][(\A t \in Threads :
           UpdatesBuffers(t) =>
              \A name \in BufferNames :
                 LET old == buf[name]
                     new == buf'[name]
                     need == RequiredSize(Top(t), name)
                 IN  /\ new.size = need
                     /\ (new.id # old.id) <=> (old.id = 0 \/ old.size # need)
                     /\ new.id # old.id => new.id \notin LiveIds(buf, bindGroup)
                     /\ new.id = old.id => new = old)
       /\ (buf' # buf =>
              \E u \in Threads : AtTop(u, "buffers") \/ pc[u] = "construct")]_vars

\* a pass has kept its input buffer (the bind group of the previous pass
\* still names it) and replaced its result buffer
C15_Witness ==
    \E t \in Threads :
        /\ AtTop(t, "bind") /\ Top(t).update
        /\ bindGroup # NoBindGroup
        /\ bindGroup.input = buf.input.id
        /\ bindGroup.result # buf.result.id

\* thread t is inside the second of the repeated calls, and the calls meet
\* the dimension precondition
InSecondCall(t) ==
    /\ InEngine(t) /\ given.entered = 2
    /\ given.padding \/ ~Underflows(given.img, given.tpl)

\* C16 as stated: when match_template is called twice in a row with the
\* same method, the same padding flag and images and templates of the same
\* dimensions, the second call allocates no GPU buffer and rebuilds no bind
\* group, for each of the six methods.
C16_SecondCallReuses ==
    [][\A t \in Threads :
          InSecondCall(t) => buf' = buf /\ bindGroup' = bindGroup]_vars

\* C21 as stated: at every dispatch, after any sequence of preceding calls,
\* the uniform buffer holds the width and height of the effective image and
\* of the template of the current pass, also when the pass has other
\* dimensions than the previous one but the same input, template and result
\* byte sizes.
C21_UniformsCurrent ==
    \A t \in Threads :
        AtTop(t, "dispatch") /\ Top(t).res.w > 0 /\ Top(t).res.h > 0
            => uniforms = UniformsOf(Top(t).eff, Top(t).tpl)

\* thread t completes the bind-group step of its pass in this step
UpdatesBindGroup(t) == AtTop(t, "bind") /\ stack'[t] # stack[t]

\* C23: in each pass the bind group is rebuilt and the uniforms rewritten
\* if and only if at least one of the four buffers was reallocated in that
\* pass (`update` is set exactly when a buffer field got a new buffer; with
\* it the bind group is built from the current buffers and the uniforms are
\* those of the pass, without it both stay as they were), and at every
\* dispatch, and while the pass is in flight, a bind group exists and names
\* the engine's current input, template and result buffers.
C23_BindGroupFollowsBuffers ==
    /\ [](\A t \in Threads :
            /\ AtTop(t, "dispatch") =>
                  bindGroup # NoBindGroup /\ bindGroup = CreateNewBindGroup(buf)
            /\ AtTop(t, "poll") =>
                  inflight.bind # NoBindGroup /\ inflight.bind = CreateNewBindGroup(buf))
    /\ [][\A t \in Threads :
             /\ UpdatesBuffers(t) =>
                   (stack'[t][Len(stack'[t])].update
                       <=> \E name \in BufferNames : buf'[name].id # buf[name].id)
             /\ UpdatesBindGroup(t) =>
                   /\ Top(t).update =>
                         /\ bindGroup' = CreateNewBindGroup(buf)
                         /\ uniforms' = UniformsOf(Top(t).eff, Top(t).tpl)
                   /\ ~Top(t).update => UNCHANGED << bindGroup, uniforms >>
                   /\ (bindGroup' # bindGroup) <=> Top(t).update]_vars

\* the pass of a second call reallocated nothing and is dispatched with the
\* bind group the first call built
C23_Witness ==
    \E t \in Threads :
        /\ AtTop(t, "dispatch") /\ ~Top(t).update /\ calls = 2
        /\ bindGroup # NoBindGroup

\* the pass of thread t that has produced its surface
Finished(t) == AtTop(t, "done")

\* the dispatches thread t has made in its call so far
DispatchesOf(t) == SelectSeq(history[t], LAMBDA e : e.kind = "dispatch")

\* how often thread t has taken the lock in its call so far
LocksTaken(t) == Len(SelectSeq(history[t], LAMBDA e : e.kind = "lock"))

\* C25: a call (a CorrelationCoefficient or CorrelationCoefficientNormed
\* call in particular) acquires the engine lock exactly once, before its
\* first pass, and never tries to acquire it while already holding it: a
\* thread waiting for the lock does not hold it and is in no pass.  And
\* from its first pre-pass to its main dispatch no other thread's call has
\* taken the lock, dispatched a pass or has a pass in flight.
C25_LockedOnce ==
    \A t \in Threads :
        /\ pc[t] = "lock" => lock # t /\ ~InEngine(t)
        /\ InEngine(t) =>
              /\ lock = t
              /\ LocksTaken(t) = 1 /\ history[t][1] = Locked
              /\ inflight.owner \in { NoThread, t }
              /\ \A u \in Threads \ {t} : history[u] = << >>

\* a CorrelationCoefficient call is between its second pre-pass dispatch
\* and its main dispatch while the other thread waits for the lock
C25_Witness ==
    \E t \in Threads, u \in Threads :
        /\ t # u /\ pc[u] = "lock"
        /\ InEngine(t) /\ Len(stack[t]) = 1
        /\ stack[t][1].method = "CorrelationCoefficient"
        /\ Len(DispatchesOf(t)) = 2

\* the dispatches a call with the arguments of frame f is to make, in order
ExpectedDispatches(f) ==
    LET main == [kind |-> "dispatch", method |-> f.method, padding |-> f.padding,
                 img |-> f.img, tpl |-> f.tpl, depth |-> 1,
                 centred |-> NeedsPrePass(f.method)]
        pre(image) == [kind |-> "dispatch", method |-> "CrossCorrelation",
                       padding |-> TRUE, img |-> image, tpl |-> f.tpl,
                       depth |-> 2, centred |-> FALSE]
    IN  IF NeedsPrePass(f.method) THEN << pre(f.img), pre(f.tpl), main >>
        ELSE << main >>

IsPrefix(a, b) == Len(a) <= Len(b) /\ a = SubSeq(b, 1, Len(a))

\* C24: one match_template call performs exactly three dispatches, in this
\* order, when the method is CorrelationCoefficient or
\* CorrelationCoefficientNormed (the image against the averaging kernel, of
\* the template's size, with CrossCorrelation and padding = true; the
\* template against the same kernel, likewise; then the main pass with the
\* requested method and padding, after the subtraction of the means), and
\* exactly one dispatch for each of the other four methods; the pre-pass
\* nests one level deep.  At every point of a call its dispatches are a
\* prefix of that sequence, and all of it when the call is about to return.
C24_DispatchesPerCall ==
    \A t \in Threads :
        InEngine(t) =>
            /\ Len(stack[t]) <= 2
            /\ IsPrefix(DispatchesOf(t), ExpectedDispatches(stack[t][1]))
            /\ Finished(t) /\ Len(stack[t]) = 1 =>
                  DispatchesOf(t) = ExpectedDispatches(stack[t][1])

\* a CorrelationCoefficient call is about to return after three dispatches
C24_Witness ==
    \E t \in Threads :
        /\ Finished(t) /\ Len(stack[t]) = 1
        /\ Top(t).method = "CorrelationCoefficient" /\ ~Top(t).padding
        /\ Top(t).img = [w |-> 2, h |-> 1] /\ Top(t).tpl = [w |-> 1, h |-> 1]
        /\ Len(DispatchesOf(t)) = 3

\* C2: with padding = false and a template no larger than the image, the
\* surface a pass returns is exactly (image_w - template_w + 1) x
\* (image_h - template_h + 1), for every method.
C2_ValidDims ==
    \A t \in Threads :
        Finished(t) /\ ~Top(t).padding /\ ~Underflows(Top(t).img, Top(t).tpl)
            => /\ Top(t).out.w = Top(t).img.w - Top(t).tpl.w + 1
               /\ Top(t).out.h = Top(t).img.h - Top(t).tpl.h + 1

\* a CorrelationCoefficientNormed call on a 2x2 image and a 2x1 template is
\* about to return a 1x2 surface
C2_Witness ==
    \E t \in Threads :
        /\ Finished(t) /\ Len(stack[t]) = 1 /\ ~Top(t).padding
        /\ Top(t).method = "CorrelationCoefficientNormed"
        /\ Top(t).img = [w |-> 2, h |-> 2] /\ Top(t).tpl = [w |-> 2, h |-> 1]
        /\ Top(t).out.w = 1 /\ Top(t).out.h = 2

\* C3 as stated: with padding = true the returned surface is
\* (image_w + template_w - 1) x (image_h + template_h - 1).
C3_PaddedDimsClaimed ==
    \A t \in Threads :
        Finished(t) /\ Top(t).padding
            => /\ Top(t).out.w = Top(t).img.w + Top(t).tpl.w - 1
               /\ Top(t).out.h = Top(t).img.h + Top(t).tpl.h - 1

\* C3 (amended): with padding = true the image is zero-extended to
\* (image_w + template_w - 1) x (image_h + template_h - 1) and the returned
\* surface is exactly image_w x image_h, for every method.
C3_PaddedKeepsImageDims ==
    \A t \in Threads :
        Finished(t) /\ Top(t).padding
            => /\ Top(t).eff.w = Top(t).img.w + Top(t).tpl.w - 1
               /\ Top(t).eff.h = Top(t).img.h + Top(t).tpl.h - 1
               /\ Top(t).out.w = Top(t).img.w
               /\ Top(t).out.h = Top(t).img.h

\* a padded call of the caller (not a pre-pass) with a 2x2 template on a
\* 1x2 image is about to return a 1x2 surface
C3_Witness ==
    \E t \in Threads :
        /\ Finished(t) /\ Len(stack[t]) = 1 /\ Top(t).padding
        /\ Top(t).img = [w |-> 1, h |-> 2] /\ Top(t).tpl = [w |-> 2, h |-> 2]
        /\ Top(t).out.w = 1 /\ Top(t).out.h = 2

\* the passes that have not yet reached the result-size arithmetic
BeforeResultSize == { "start", "pre1", "pre2", "pad" }

\* C4 as stated: a call with padding = false and a template wider or taller
\* than the image is rejected before any buffer-size arithmetic or buffer
\* update: no pass of such a call gets past the padding step, and the call
\* does not end in the panic of an overflowing subtraction.
C4_RejectedBeforeBuffers ==
    \A t \in Threads :
        /\ InEngine(t) /\ ~stack[t][1].padding
                       /\ Underflows(stack[t][1].img, stack[t][1].tpl)
              => \A i \in 1..Len(stack[t]) : stack[t][i].pc \in BeforeResultSize
        /\ result[t].kind # "attempt to subtract with overflow"

\* thread t is inside a call that violates the dimension precondition
InIllFormedCall(t) ==
    /\ InEngine(t)
    /\ ~stack[t][1].padding
    /\ Underflows(stack[t][1].img, stack[t][1].tpl)

\* C28 as stated: a match_template call that violates the dimension
\* precondition (padding = false, template larger than the image) fails
\* without panicking while the engine lock is held, leaves the engine's
\* buffers, bind group and uniforms unchanged, and leaves the engine
\* usable: the lock is not poisoned by it, so later calls still acquire it.
C28_BadDimsLeaveEngine ==
    [][\A t \in Threads :
          InIllFormedCall(t) =>
             /\ pc'[t] # "panicked"
             /\ poisoned' = poisoned
             /\ UNCHANGED << buf, bindGroup, uniforms >>]_vars

\* the outermost frame of thread t's call has dimensions the engine accepts
WellFormedCall(t) ==
    /\ pc[t] = "in" /\ InEngine(t)
    /\ stack[t][1].padding \/ ~Underflows(stack[t][1].img, stack[t][1].tpl)

\* when device.poll returns, the map_async callback has run
DeviceSignals ==
    \A t \in Threads : AtTop(t, "polled") => Top(t).signal # "empty"

\* C31: if the device signals the completion of every submitted pass, every
\* well-formed call that has entered the engine eventually returns having
\* released the lock, and, the lock being fair, every thread that waits
\* for the lock eventually obtains it.
C31_CallsComplete ==
    []DeviceSignals =>
        \A t \in Threads :
            /\ WellFormedCall(t) ~> (pc[t] = "returned" /\ lock # t)
            /\ (pc[t] = "lock") ~> (pc[t] = "in" /\ lock = t)

\* the step of thread t that reads the channel after poll returned
Receives(t) == AtTop(t, "polled") /\ stack'[t] # stack[t]
ReturnsZeros(t) ==
    /\ stack'[t] # << >>
    /\ stack'[t][Len(stack'[t])].pc = "done"
    /\ stack'[t][Len(stack'[t])].out = SurfaceOf(Top(t).res, "zero")

PixelValues(s) == { s.px[i] : i \in 1..(s.w * s.h) }
GlobalMin(s) == CHOOSE v \in PixelValues(s) : \A u \in PixelValues(s) : v <= u
GlobalMax(s) == CHOOSE v \in PixelValues(s) : \A u \in PixelValues(s) : v >= u

\* the first cell, in scan order, that holds value v
FirstCell(s, v) ==
    LET i == CHOOSE k \in 1..(s.w * s.h) :
                 s.px[k] = v /\ \A j \in 1..(k - 1) : s.px[j] # v
    IN  << (i - 1) % s.w, (i - 1) \div s.w >>

\* the surface's extremum in the method's better-direction, and whether it
\* strictly passes the threshold
BetterExtremum(s, method) == IF IsDifference(method) THEN GlobalMin(s) ELSE GlobalMax(s)
ExtremumPasses(s, opts) ==
    IF IsDifference(opts.method) THEN GlobalMin(s) < opts.threshold
    ELSE GlobalMax(s) > opts.threshold

Images == 1..Len(single)

\* C6: SingleMatcher returns Some exactly when the surface's global extremum
\* in the method's better-direction strictly passes the threshold (minimum <
\* threshold for the two difference methods, maximum > threshold for the
\* other four); an extremum equal to the threshold gives None.
C6_SomeIffExtremumPasses ==
    \A i \in Images :
        single[i].result.some <=> ExtremumPasses(candidates[i], options)

\* a surface whose minimum equals the threshold gives None under a
\* difference method, next to one that passes
C6_Witness ==
    /\ IsDifference(options.method)
    /\ \E i \in Images :
          /\ GlobalMin(candidates[i]) = options.threshold
          /\ ~single[i].result.some
    /\ \E i \in Images : single[i].result.some

\* C7: a match returned by SingleMatcher carries the value of the surface's
\* global minimum (difference methods) or global maximum (the other four),
\* the location of the first cell in scan order that holds it, and the
\* template's size.
C7_MatchIsFirstExtremum ==
    \A i \in Images :
        single[i].result.some =>
            LET v == BetterExtremum(candidates[i], options.method)
                at == FirstCell(candidates[i], v)
            IN  /\ single[i].result.value = v
                /\ single[i].result.x = at[1] /\ single[i].result.y = at[2]
                /\ single[i].result.width = template.w
                /\ single[i].result.height = template.h

\* the scenario of the claim, on the value grid of the model (0 for 5.0, 2
\* for 50.0, threshold 1 for 10.0): SumOfSquaredDifference returns the one
\* low cell, and CrossCorrelation on three high cells returns the first
C7_Witness ==
    \/ /\ options.method = "SumOfSquaredDifference" /\ options.threshold = 1
       /\ \E i \in Images :
             /\ candidates[i] = [w |-> 2, h |-> 2, px |-> << 2, 2, 0, 2 >>]
             /\ single[i].result.x = 0 /\ single[i].result.y = 1
             /\ single[i].result.value = 0
    \/ /\ options.method = "CrossCorrelation" /\ options.threshold = 1
       /\ \E i \in Images :
             /\ candidates[i] = [w |-> 2, h |-> 2, px |-> << 0, 2, 2, 2 >>]
             /\ single[i].result.x = 1 /\ single[i].result.y = 0
             /\ single[i].result.value = 2

\* the values of the matches that passed the threshold
PassedValues == { single[i].result.value : i \in { j \in Images : single[j].result.some } }
BestIsCandidate ==
    /\ best.index + 1 \in Images
    /\ single[best.index + 1].result = best.match

\* C8 as stated: for the two lower-is-better methods BestMatcher returns the
\* index and match of the candidate whose passing match has the smallest
\* value among the candidates that passed.
C8_BestIsSmallest ==
    phase = "done" /\ IsDifference(options.method) /\ PassedValues # {}
        => /\ best.some
           /\ BestIsCandidate
           /\ \A v \in PassedValues : best.match.value <= v

\* a SingleMatcher result holding a 1x1 surface with the given value
Injected(v, opts) == SingleMatch([w |-> 1, h |-> 1, px |-> << v >>], [w |-> 1, h |-> 1], opts)

\* C9: for the four higher-is-better methods BestMatcher returns the index
\* (position in the input sequence) and match of the candidate whose passing
\* match has the largest value; best values 0.90, 0.95, 0.80 under
\* CrossCorrelationNormed with threshold 0.5 (90, 95, 80 and 50 in
\* hundredths) give index 1.
C9_BestIsLargest ==
    /\ phase = "done" /\ ~IsDifference(options.method) /\ PassedValues # {}
          => /\ best.some
             /\ BestIsCandidate
             /\ \A v \in PassedValues : best.match.value >= v
    /\ LET opts == [method |-> "CrossCorrelationNormed", threshold |-> 50,
                    padding |-> FALSE]
       IN  BestOf(<< Injected(90, opts), Injected(95, opts), Injected(80, opts) >>).index = 1

\* two candidates pass under CrossCorrelationNormed and the second, with
\* the larger value, is returned
C9_Witness ==
    /\ phase = "done" /\ options.method = "CrossCorrelationNormed"
    /\ Len(single) = 2
    /\ single[1].result.some /\ single[2].result.some
    /\ single[1].result.value < single[2].result.value
    /\ best.some /\ best.index = 1

\* C10: BestMatcher returns None exactly when no candidate's surface passed
\* the threshold (the empty candidate list included); single_results holds
\* one SingleMatcher result per candidate, in input order; and a returned
\* index i is that of a candidate whose single result is the returned match.
C10_NoneIffNonePassed ==
    /\ Len(single) = Len(candidates)
    /\ \A i \in Images : single[i].matched_image = candidates[i]
    /\ phase = "done" =>
          /\ ~best.some <=> \A i \in Images : ~ExtremumPasses(candidates[i], options)
          /\ best.some => BestIsCandidate /\ best.match.some

\* of two candidates only the second passed, and it is the one returned
C10_Witness ==
    /\ phase = "done" /\ Len(single) = 2
    /\ ~single[1].result.some
    /\ best.some /\ best.index = 1 /\ best.match = single[2].result

\* ===================================================================
\*  Properties of find_matches and MultiMatcher, checked under SpecMulti
\* ===================================================================

\* find_matches has returned
Returned == stage \in { "found", "done" }

\* the value strictly passes the threshold in the method's direction
StrictlyPasses(value) ==
    IF IsDifference(options.method) THEN value < options.threshold
    ELSE value > options.threshold

\* the pixels of the surface (by scan index) that qualify
QualifyingPixels == { i \in 1..(input.w * input.h) : StrictlyPasses(input.px[i]) }

\* the match a pixel would be on its own
CellMatch(i) ==
    [x |-> (i - 1) % input.w, y |-> (i - 1) \div input.w, value |-> input.px[i]]

\* C11: in MultiMatcher::match_template the threshold re-filter agrees with
\* find_matches: it removes no match, so the list MultiMatcher returns is
\* the list find_matches returned, in content and order.
C11_RefilterKeepsAll ==
    stage = "done" => multi = matches

\* two matches were returned from a surface that also holds a pixel equal
\* to the threshold
C11_Witness ==
    /\ stage = "done" /\ Len(multi) = 2
    /\ \E i \in 1..(input.w * input.h) : input.px[i] = options.threshold

\* C12: every match returned by find_matches has a value strictly more
\* matching than the threshold (value < threshold for the two difference
\* methods, value > threshold otherwise) and equal to the surface value at
\* the match's location; the list is empty exactly when no pixel qualifies.
C12_MatchesQualify ==
    Returned =>
        /\ \A k \in 1..Len(matches) :
              /\ StrictlyPasses(matches[k].value)
              /\ matches[k].x \in 0..(input.w - 1)
              /\ matches[k].y \in 0..(input.h - 1)
              /\ input.px[matches[k].y * input.w + matches[k].x + 1] = matches[k].value
        /\ (matches = << >>) <=> (QualifyingPixels = {})

\* one match was returned for several qualifying pixels, and it is not at
\* the first of them: it was moved to a better pixel during the scan
C12_Witness ==
    /\ Returned /\ Len(matches) = 1
    /\ Cardinality(QualifyingPixels) >= 2
    /\ \A i \in QualifyingPixels :
          (\A j \in QualifyingPixels : i <= j) => matches[1] # CellMatch(i)

\* a 20x20 surface that is 0 everywhere but 90 at a and 95 at b (hundredths)
Peaks(a, b) ==
    [w |-> 20, h |-> 20,
     px |-> [i \in 1..400 |->
               IF << (i - 1) % 20, (i - 1) \div 20 >> = a THEN 90
               ELSE IF << (i - 1) % 20, (i - 1) \div 20 >> = b THEN 95
               ELSE 0]]

\* find_matches on the two synthetic surfaces, 5x5 template, threshold 0.80
PeaksNearby ==
    find_matches(Peaks(<< 2, 2 >>, << 3, 3 >>), 5, 5, "CrossCorrelationNormed", 80)
PeaksApart ==
    find_matches(Peaks(<< 2, 2 >>, << 10, 10 >>), 5, 5, "CrossCorrelationNormed", 80)

\* C13: when exactly two surface pixels qualify, find_matches returns
\* exactly one match if the two pixels satisfy |dx| < template_w and
\* |dy| < template_h (the more matching of the two, or the first scanned on
\* a tie), and exactly two matches otherwise; peaks at (2,2) and (3,3) with a
\* 5x5 template give one match, peaks at (2,2) and (10,10) give two.
C13_TwoPeaks ==
    /\ Returned /\ Cardinality(QualifyingPixels) = 2 =>
          LET p == CHOOSE i \in QualifyingPixels : \A j \in QualifyingPixels : i <= j
              q == CHOOSE i \in QualifyingPixels : \A j \in QualifyingPixels : i >= j
              dx == CellMatch(p).x - CellMatch(q).x
              dy == CellMatch(p).y - CellMatch(q).y
              near == /\ dx < template.w /\ 0 - dx < template.w
                      /\ dy < template.h /\ 0 - dy < template.h
              qBetter == IF IsDifference(options.method)
                         THEN input.px[q] < input.px[p]
                         ELSE input.px[q] > input.px[p]
          IN  IF near
              THEN matches = << IF qBetter THEN CellMatch(q) ELSE CellMatch(p) >>
              ELSE Len(matches) = 2
    /\ Len(PeaksNearby) = 1
    /\ Len(PeaksApart) = 2

\* exactly two pixels qualify, they lie within one template box, and the
\* single match returned is the second one scanned, which is the better
C13_Witness ==
    /\ Returned /\ Cardinality(QualifyingPixels) = 2 /\ Len(matches) = 1
    /\ \E i \in QualifyingPixels :
          /\ \A j \in QualifyingPixels : j <= i
          /\ matches[1] = CellMatch(i)

\* how often m occurs in the sequence
Occurrences(ms, m) == Cardinality({ k \in 1..Len(ms) : ms[k] = m })

\* C14: the list returned by find_matches is ordered better-first: of two
\* matches a before b, b is not strictly more matching than a (ascending
\* value for the difference methods, descending for the others); and the
\* list is a permutation of the matches the scan accumulated.
C14_BetterFirst ==
    Returned =>
        /\ \A i \in 1..Len(matches), j \in 1..Len(matches) :
              i < j => IF IsDifference(options.method)
                       THEN matches[i].value <= matches[j].value
                       ELSE matches[i].value >= matches[j].value
        /\ Len(matches) = Len(scanned)
        /\ \A k \in 1..Len(scanned) :
              Occurrences(matches, scanned[k]) = Occurrences(scanned, scanned[k])

\* three matches were accumulated and sorting changed their order
C14_Witness ==
    /\ Returned /\ Len(matches) = 3
    /\ matches # scanned
    /\ matches[1].value # matches[3].value

\* the documented preset of each method, in hundredths
PresetThreshold(method) ==
    CASE method = "SumOfSquaredDifference" -> 3000
      [] method = "SumOfSquaredDifferenceNormed" -> 20
      [] method = "CrossCorrelation" -> 3000
      [] method = "CrossCorrelationNormed" -> 80
      [] method = "CorrelationCoefficient" -> 3000
      [] method = "CorrelationCoefficientNormed" -> 80

\* C18: MatcherOptions::method_default(method) returns options with that
\* method, padding = false, and threshold 30.0 for SumOfSquaredDifference,
\* CrossCorrelation and CorrelationCoefficient, 0.2 for
\* SumOfSquaredDifferenceNormed, and 0.8 for CrossCorrelationNormed and
\* CorrelationCoefficientNormed; a call whose options carry a threshold
\* outside the range of the hand-built ones runs with exactly these.
C18_MethodDefaults ==
    /\ \A method \in Methods :
          method_default(method) =
              [method |-> method, threshold |-> PresetThreshold(method),
               padding |-> FALSE]
    /\ stage # "idle" /\ options.threshold \notin Thresholds =>
          /\ options.threshold = PresetThreshold(options.method)
          /\ ~options.padding

\* MultiMatcher has run with method_default(CrossCorrelationNormed): no
\* surface value exceeds 0.8, and nothing was returned
C18_Witness ==
    /\ stage = "done"
    /\ options = [method |-> "CrossCorrelationNormed", threshold |-> 80,
                  padding |-> FALSE]
    /\ multi = << >>

\* the scan handles the pixel at the cursor in this step
Scans == stage = "scan" /\ cursor <= input.w * input.h /\ cursor' = cursor + 1

\* the matches whose box holds the pixel at the cursor
BoxesAtCursor ==
    { k \in 1..Len(matches) :
        /\ AbsDiff(matches[k].x, PixelX(input, cursor)) < template.w
        /\ AbsDiff(matches[k].y, PixelY(input, cursor)) < template.h }

\* C29: while find_matches scans, a qualifying pixel that lies within the
\* template box of one or more accumulated matches modifies at most one of
\* them, the most recently appended such match, replacing its location and
\* value if and only if the pixel is strictly more matching than it; all
\* other matches and the list length are unchanged.  A new match is
\* appended only when the pixel qualifies and is within the box of no
\* accumulated match, and then nothing else changes; a pixel that does not
\* qualify changes nothing.
C29_ScanStepFrame ==
    [][Scans =>
         LET value == input.px[cursor]
             here == [x |-> PixelX(input, cursor), y |-> PixelY(input, cursor),
                      value |-> value]
             last == CHOOSE k \in BoxesAtCursor : \A j \in BoxesAtCursor : j <= k
         IN  IF ~StrictlyPasses(value) THEN matches' = matches
             ELSE IF BoxesAtCursor = {} THEN matches' = Append(matches, here)
             ELSE /\ Len(matches') = Len(matches)
                  /\ \A k \in 1..Len(matches) : k # last => matches'[k] = matches[k]
                  /\ IF is_a_more_match_than_b(value, matches[last].value,
                                               options.method)
                     THEN matches'[last] = here
                     ELSE matches'[last] = matches[last]]_vars

\* two matches hold the next pixel in their boxes, the pixel is better than
\* the later one, and the earlier one is not the later one's equal
C29_Witness ==
    /\ stage = "scan" /\ cursor <= input.w * input.h
    /\ Cardinality(BoxesAtCursor) = 2
    /\ StrictlyPasses(input.px[cursor])
    /\ \E k \in BoxesAtCursor :
          /\ \A j \in BoxesAtCursor : j <= k
          /\ is_a_more_match_than_b(input.px[cursor], matches[k].value, options.method)

\* what SingleMatcher returns for the surface, template and options of the
\* MultiMatcher call
SingleOnInput == SingleMatch(input, template, options).result

\* C30: for the same surface, method and threshold, MultiMatcher's result is
\* non-empty if and only if SingleMatcher's result is Some, and then the
\* value of MultiMatcher's first match equals the value of SingleMatcher's
\* match: the surface's extremum in the method's better-direction is not
\* lost by the merge.
C30_MultiAgreesWithSingle ==
    stage = "done" =>
        /\ (multi # << >>) <=> SingleOnInput.some
        /\ multi # << >> => multi[1].value = SingleOnInput.value

\* MultiMatcher returned two matches and the best value was not at the
\* first pixel that opened a match: a match was moved to it, or sorting
\* brought it to the front
C30_Witness ==
    /\ stage = "done" /\ Len(multi) = 2
    /\ SingleOnInput.some
    /\ multi[1].value # multi[2].value
    /\ \E i \in QualifyingPixels :
          /\ \A j \in QualifyingPixels : i <= j
          /\ input.px[i] # multi[1].value

\* C22 as stated: for every surface, template size, method and threshold,
\* no two matches returned by find_matches lie in the same template-sized
\* neighbourhood: any two returned matches have |dx| >= template_w or
\* |dy| >= template_h.
C22_OnePerNeighbourhood ==
    Returned =>
        \A i \in 1..Len(matches), j \in 1..Len(matches) :
            i # j => \/ AbsDiff(matches[i].x, matches[j].x) >= template.w
                     \/ AbsDiff(matches[i].y, matches[j].y) >= template.h

\* ===================================================================
\*  Properties of SingleMatcher on pixel images, checked under SpecPixels
\* ===================================================================

\* the value of the returned surface at (x, y)
SurfaceAt(x, y) == outcome.matched_image.px[y * outcome.matched_image.w + x + 1]

\* C19 as stated: for a template exactly equal to a sub-rectangle of the
\* image, the SumOfSquaredDifference surface (padding = false) has value 0
\* at the sub-rectangle's top-left coordinate and no smaller value anywhere,
\* so SingleMatcher with any positive threshold returns a match of value 0.
C19_ExactMatchIsZero ==
    outcome.kind = "returned" =>
        /\ SurfaceAt(region.x, region.y) = 0
        /\ \A k \in 1..Len(outcome.matched_image.px) : outcome.matched_image.px[k] >= 0
        /\ outcome.result.some
        /\ outcome.result.value = 0

\* ===================================================================
\*  Properties of Task, checked under SpecTask
\* ===================================================================

SkipMarked(i) == steps[i].skip_if_failed = Some(1)

\* every step has returned, with Ok or as a step marked skip_if_failed
AllOkOrSkipped ==
    /\ Len(stepResults) = Len(steps)
    /\ \A i \in 1..Len(steps) : stepResults[i] = "ok" \/ SkipMarked(i)

\* C20: Task::execute runs its steps in list order: actions are executed in
\* nondecreasing step order, no step is started before the ones in front of
\* it have returned.  When a step returns an error and its skip_if_failed is
\* not true, the task returns that error at once: it is the last step that
\* ran, and no action of a later step was executed.  When skip_if_failed is
\* true the error does not end the task.  And the task returns Ok exactly
\* when every step either returned Ok or was marked skip_if_failed.
C20_StepsInOrder ==
    /\ \A i \in 1..Len(executed), j \in 1..Len(executed) :
          i < j => executed[i] <= executed[j]
    /\ \A i \in 1..Len(executed) : executed[i] <= stepIx
    /\ taskRet \in { "none", "ok" } => Len(stepResults) = stepIx - 1
    /\ taskRet = "err" =>
          /\ taskPc = "done"
          /\ Len(stepResults) = stepIx
          /\ stepResults[stepIx] = "err"
          /\ ~SkipMarked(stepIx)
    /\ \A i \in 1..Len(stepResults) :
          stepResults[i] = "err" /\ i < Len(stepResults) => SkipMarked(i)
    /\ taskPc = "done" /\ taskRet # "panicked" =>
          (taskRet = "ok" <=> AllOkOrSkipped)

\* the first of two steps failed and was skipped, the second ran, and the
\* task returned Ok
C20_Witness ==
    /\ taskRet = "ok" /\ Len(steps) = 2
    /\ stepResults = << "err", "ok" >>
    /\ executed[Len(executed)] = 2

\* ===================================================================
\*  Properties of the mean-subtraction pre-pass, checked under SpecMeans
\* ===================================================================

\* both pre-passes of a call that meets the dimension precondition have run
\* and their surfaces were read back
Averaged ==
    /\ prepass.pos \in { "main", "done" }
    /\ prepass.signals[1] = "ok" /\ prepass.signals[2] = "ok"
    /\ prepass.padding \/ ~Underflows(prepass.img, prepass.tpl)

\* the sum of the tw x th window anchored at (x, y) of the image extended
\* with zeros: the window's average in the units of the kernel
WindowSum(img, x, y, tw, th) ==
    SumOver([i \in 1..(tw * th) |->
               LET cx == x + ((i - 1) % tw)
                   cy == y + ((i - 1) \div tw)
               IN  IF cx < img.w /\ cy < img.h THEN img.px[cy * img.w + cx + 1]
                   ELSE 0],
            tw * th)

\* the local-average surface of the image is what the claim says it is
ImageAveraged ==
    /\ prepass.avg_image.w = prepass.img.w
    /\ prepass.avg_image.h = prepass.img.h
    /\ \A x \in 0..(prepass.img.w - 1), y \in 0..(prepass.img.h - 1) :
          prepass.avg_image.px[y * prepass.img.w + x + 1]
              = WindowSum(prepass.img, x, y, prepass.tpl.w, prepass.tpl.h)

\* C26 as stated: in the mean-subtraction pre-pass the value subtracted
\* from a template pixel is the same for every pixel of the template, the
\* mean of the whole template; and the value subtracted from image pixel
\* (x, y) is the average over the template-sized window anchored at (x, y)
\* of the zero-extended image, the local-average surface having exactly the
\* image's dimensions.
C26_MeansSubtracted ==
    Averaged =>
        /\ \A i \in 1..(prepass.tpl.w * prepass.tpl.h) :
              prepass.avg_template.px[i]
                  = SumOver(prepass.tpl.px, prepass.tpl.w * prepass.tpl.h)
        /\ ImageAveraged

\* ===================================================================
\*  Properties of SingleMatcher on a failed mapping, checked under
\*  SpecSingle
\* ===================================================================

\* the latest call returned after its staging buffer failed to map
MapFailed == outcome.kind = "returned" /\ readback.signal = "err"

\* C27: when mapping the staging buffer reports failure, match_template
\* returns an all-zero result_w x result_h surface with no error indication
\* (the call returns like any other), so SingleMatcher with a difference
\* method and a threshold > 0 reports Some match at location (0,0) with
\* value 0, while with a correlation method and a threshold >= 0 it
\* reports None.
C27_FailedMapLooksGenuine ==
    MapFailed =>
        LET res == ResultDims(PaddedDims(readback.img, readback.tpl, options.padding),
                              readback.tpl)
        IN  /\ outcome.matched_image =
                  [w |-> res.w, h |-> res.h, px |-> Zeros(res.w * res.h)]
            /\ IsDifference(options.method) /\ options.threshold > 0 =>
                  outcome.result = SomeMatch(<< 0, 0 >>, readback.tpl, 0)
            /\ ~IsDifference(options.method) /\ options.threshold >= 0 =>
                  ~outcome.result.some

\* the second call of a SumOfSquaredDifferenceNormed matcher failed to map
\* its 2x2 result and reports a match of value 0 at (0,0)
C27_Witness ==
    /\ MapFailed /\ calls = 2
    /\ options.method = "SumOfSquaredDifferenceNormed" /\ options.threshold > 0
    /\ outcome.matched_image.w = 2 /\ outcome.matched_image.h = 2
    /\ outcome.result.some /\ outcome.result.x = 0 /\ outcome.result.y = 0
    /\ outcome.result.value = 0

\* Controller::click_in_rect: the point picked for the random numbers rx, ry
ClickPoint(rect, rx, ry) ==
    [x |-> (rx % rect.width) + rect.x, y |-> (ry % rect.height) + rect.y]

\* random numbers that reach every offset inside a rect, and wrap around it
Randoms == 0..(2 * MaxSide)

\* a SingleMatcher call without padding returned a match
MatchedUnpadded ==
    outcome.kind = "returned" /\ ~options.padding /\ outcome.result.some

\* C32: with padding = false, every match rect SingleMatcher returns has
\* the template's size and lies entirely inside the source image
\* (x + template_w <= image_w and y + template_h <= image_h), so
\* the point click_in_rect picks inside the rect is a coordinate of the
\* screenshot.
C32_RectInsideImage ==
    MatchedUnpadded =>
        LET rect == outcome.result
        IN  /\ rect.width = readback.tpl.w /\ rect.height = readback.tpl.h
            /\ rect.x >= 0 /\ rect.y >= 0
            /\ rect.x + readback.tpl.w <= readback.img.w
            /\ rect.y + readback.tpl.h <= readback.img.h
            /\ \A rx \in Randoms, ry \in Randoms :
                  /\ ClickPoint(rect, rx, ry).x \in 0..(readback.img.w - 1)
                  /\ ClickPoint(rect, rx, ry).y \in 0..(readback.img.h - 1)

\* a match away from the origin whose rect ends at the image's right edge,
\* for a template that is not square
C32_Witness ==
    /\ MatchedUnpadded
    /\ outcome.result.x > 0
    /\ outcome.result.x + outcome.result.width = readback.img.w
    /\ readback.tpl.w # readback.tpl.h

\* the executions of the action of step i in its round r, in order
AttemptsOf(i, r) ==
    SelectSeq(attempts, LAMBDA a : a.step = i /\ a.round = r)

\* TaskStep::execute has returned for step i
StepReturned(i) == i <= Len(stepResults)

\* round r of step i has run to its end
RoundOver(i, r) ==
    \/ stepIx = i /\ taskPc = "exec" /\ r < round
    \/ StepReturned(i) /\ (r = 0 \/ AttemptsOf(i, r) # << >>)

\* the last round of step i that has made an attempt
LastRound(i) ==
    CHOOSE r \in 0..MaxRepeat :
        /\ AttemptsOf(i, r) # << >>
        /\ \A q \in (r + 1)..MaxRepeat : AttemptsOf(i, q) = << >>

Rounds == 0..MaxRepeat

\* C33: within one round of a TaskStep with retry = n >= 0 the action is
\* attempted at least once and at most n + 1 times, no attempt is made after
\* the first successful one, and the round's result is the result of its
\* last attempt; with retry unset the action is attempted exactly once per
\* round.
C33_AttemptsPerRound ==
    \A i \in 1..Len(steps), r \in Rounds :
        LET a == AttemptsOf(i, r)
            n == steps[i].retry
        IN  /\ RoundOver(i, r) => Len(a) >= 1
            /\ n.some /\ n.v >= 0 =>
                  /\ Len(a) <= n.v + 1
                  /\ \A k \in 1..(Len(a) - 1) : a[k].res = "err"
            /\ ~n.some => Len(a) <= 1
            /\ StepReturned(i) /\ (~n.some \/ n.v >= 0) /\ r = LastRound(i) =>
                  stepResults[i] = a[Len(a)].res

\* a step with retry = Some(1) has finished a round in which both attempts
\* failed, and a step with retry = Some(1) a round whose second attempt
\* succeeded
C33_Witness ==
    /\ \E i \in 1..Len(steps) :
          /\ steps[i].retry = Some(1) /\ StepReturned(i)
          /\ Len(AttemptsOf(i, 0)) = 2
          /\ AttemptsOf(i, 0)[2].res = "err"
    /\ \E i \in 1..Len(steps) :
          /\ steps[i].retry = Some(1) /\ StepReturned(i)
          /\ Len(AttemptsOf(i, 0)) = 2
          /\ AttemptsOf(i, 0)[2].res = "ok"

\* every execution of the action of step i, in order
AllAttemptsOf(i) == SelectSeq(attempts, LAMBDA a : a.step = i)

\* the rounds of step i that have made an attempt
RoundsRun(i) == { r \in Rounds : AttemptsOf(i, r) # << >> }

\* C34: a TaskStep with repeat = r (unset = 0) runs at most r + 1 rounds; a
\* repeat round starts only if the round before it ended in success; the
\* step returns the result of the last round run; when every execution of
\* the action succeeds the action is executed exactly r + 1 times; and over
\* one step the action is attempted at most (r + 1) * (n + 1) times when
\* retry = n >= 0.
C34_RoundsPerStep ==
    \A i \in 1..Len(steps) :
        LET r == unwrap_or(steps[i].repeat, 0)
            n == steps[i].retry
            all == AllAttemptsOf(i)
        IN  /\ Cardinality(RoundsRun(i)) <= r + 1
            /\ \A q \in RoundsRun(i) :
                  q > 0 => /\ (q - 1) \in RoundsRun(i)
                           /\ AttemptsOf(i, q - 1)[Len(AttemptsOf(i, q - 1))].res = "ok"
            /\ StepReturned(i) =>
                  /\ stepResults[i] = all[Len(all)].res
                  /\ all[Len(all)].round = LastRound(i)
                  /\ (\A k \in 1..Len(all) : all[k].res = "ok") => Len(all) = r + 1
            /\ n.some /\ n.v >= 0 => Len(all) <= (r + 1) * (n.v + 1)

\* a returned step with repeat = Some(1) and retry = Some(1) that took all
\* four attempts, and a returned step with repeat = Some(1) whose first
\* round failed
C34_Witness ==
    /\ \E i \in 1..Len(steps) :
          /\ StepReturned(i)
          /\ steps[i].repeat = Some(1) /\ steps[i].retry = Some(1)
          /\ Len(AllAttemptsOf(i)) = 4
    /\ \E i \in 1..Len(steps) :
          /\ StepReturned(i)
          /\ steps[i].repeat = Some(1)
          /\ RoundsRun(i) = { 0 }
          /\ stepResults[i] = "err"

\* step i retries without limit
RetriesForever(i) == steps[i].retry.some /\ steps[i].retry.v < 0

\* what holds of the log at every moment when step i retries without limit:
\* a successful attempt is the last of its round and ends it, a round that
\* is over ended with a successful attempt, and while every attempt of the
\* step has failed the step and the Task are still running
UnlimitedRetry(i) ==
    /\ \A r \in Rounds :
          LET a == AttemptsOf(i, r)
          IN  /\ \A k \in 1..Len(a) :
                    a[k].res = "ok" => k = Len(a) /\ RoundOver(i, r)
              /\ RoundOver(i, r) => a # << >> /\ a[Len(a)].res = "ok"
    /\ StepReturned(i) => stepResults[i] = "ok"
    /\ (AllAttemptsOf(i) # << >>
          /\ \A k \in 1..Len(AllAttemptsOf(i)) : AllAttemptsOf(i)[k].res = "err") =>
          /\ ~StepReturned(i)
          /\ stepIx = i /\ taskPc = "exec" /\ taskRet = "none"

\* no step of the Task retries without limit
BoundedRetries == \A i \in 1..Len(steps) : ~RetriesForever(i)

\* C35: a TaskStep with a negative retry re-attempts its action until it
\* succeeds: a round never ends in an error and ends if and only if some
\* attempt succeeds, and while the action keeps failing neither the step
\* nor the enclosing Task returns, whatever skip_if_failed says; a Task
\* whose steps all have retry unset or >= 0 (its actions returning) always
\* terminates.
C35_NegativeRetry ==
    /\ [](\A i \in 1..Len(steps) : RetriesForever(i) => UnlimitedRetry(i))
    /\ BoundedRetries => <>(taskPc = "done")

\* a step with retry = Some(-1) and skip_if_failed = Some(true) returned Ok
\* after its action had failed twice, more often than any retry >= 0 of
\* the model allows
C35_Witness ==
    \E i \in 1..Len(steps) :
        /\ steps[i].retry = Some(0 - 1)
        /\ steps[i].skip_if_failed = Some(1)
        /\ StepReturned(i)
        /\ Len(AttemptsOf(i, 0)) > MaxRetry + 1
        /\ stepResults[i] = "ok"

\* the nodes that at most k edges of g lead to from v
RECURSIVE Within(_, _, _)
Within(g, v, k) ==
    IF k = 0 THEN { v }
    ELSE LET near == Within(g, v, k - 1)
         IN  near \cup { g[e].to : e \in { d \in 1..Len(g) : g[d].from \in near } }

Reachable(g, v, w) == w \in Within(g, v, Len(g))

\* the least number of edges from v to w, for w reachable from v
Distance(g, v, w) ==
    CHOOSE k \in 0..Len(g) :
        /\ w \in Within(g, v, k)
        /\ k > 0 => w \notin Within(g, v, k - 1)

\* the node the actions run so far have led to
NavAt == IF nav.ran = << >> THEN nav.from
         ELSE nav.edges[nav.ran[Len(nav.ran)].edge].to

\* C36: nav(from, to) runs the edge actions of a path from `from` to `to`
\* with the least number of edges, in path order and each exactly once; it
\* stops at the first edge action that fails and returns that error without
\* running later edges; when `to` is unreachable it returns an error without
\* running any edge action, and when from = to it runs none and returns Ok.
C36_NavRunsShortestPath ==
    LET g == nav.edges
        ran == nav.ran
        n == Len(ran)
    IN  /\ \A k \in 1..n :
              /\ g[ran[k].edge].from =
                    (IF k = 1 THEN nav.from ELSE g[ran[k - 1].edge].to)
              /\ \A j \in 1..n : j # k => ran[j].edge # ran[k].edge
              /\ k < n => ran[k].res = "ok"
        /\ n > 0 =>
              /\ Reachable(g, nav.from, nav.to)
              /\ Reachable(g, NavAt, nav.to)
              /\ n + Distance(g, NavAt, nav.to) = Distance(g, nav.from, nav.to)
        /\ n > 0 /\ ran[n].res = "err" => nav.pc = "done" /\ nav.ret = "err"
        /\ nav.pc = "done" =>
              /\ nav.ret = "ok" <=>
                    /\ NavAt = nav.to
                    /\ \A k \in 1..n : ran[k].res = "ok"
              /\ nav.ret = "unreachable" <=> ~Reachable(g, nav.from, nav.to)
              /\ nav.ret = "unreachable" => n = 0
              /\ nav.ret \in { "ok", "err", "unreachable" }
              /\ nav.from = nav.to => n = 0 /\ nav.ret = "ok"

\* the case of tests::test_nav_graph: a call that returned Ok after one
\* edge action on a graph that also has a way round through a third node
C36_Witness ==
    /\ nav.pc = "done" /\ nav.ret = "ok"
    /\ Len(nav.ran) = 1
    /\ \E p \in NodePaths(nav.edges, nav.from, nav.to) :
          Len(p) = 3 /\ p[2] # p[1] /\ p[2] # p[3]

\* the positions of the log at which from_device made the call op
CallsOf(op) == { k \in 1..Len(app.log) : app.log[k].op = op }

\* the first and the second check of App::init, when they have been made
FirstCheck == CHOOSE k \in CallsOf("check") : \A j \in CallsOf("check") : k <= j
SecondCheck == CHOOSE k \in CallsOf("check") : k # FirstCheck

\* C37: App::init calls build only after a check has succeeded; when the
\* first check succeeds push is never called; when the first check fails
\* push is called exactly once and, push succeeding, check is run again; a
\* failure of push or of the second check is returned as the error of init
\* without build being called.
C37_BuildAfterCheck ==
    /\ \A k \in CallsOf("build") : k > 1 /\ app.log[k - 1] = Did("check", "ok")
    /\ Cardinality(CallsOf("check")) <= 2 /\ Cardinality(CallsOf("push")) <= 1
    /\ CallsOf("check") # {} =>
          IF app.log[FirstCheck].res = "ok"
          THEN CallsOf("push") = {} /\ CallsOf("check") = { FirstCheck }
          ELSE /\ app.pc = "done" => CallsOf("push") = { FirstCheck + 1 }
               /\ \A k \in CallsOf("push") :
                     IF app.log[k].res = "ok"
                     THEN app.pc = "done" =>
                             /\ Cardinality(CallsOf("check")) = 2
                             /\ SecondCheck = k + 1
                     ELSE /\ app.pc = "done" /\ app.ret = "err"
                          /\ CallsOf("build") = {}
                          /\ Cardinality(CallsOf("check")) = 1
               /\ Cardinality(CallsOf("check")) = 2 /\ app.log[SecondCheck].res = "err" =>
                     /\ app.pc = "done" /\ app.ret = "err"
                     /\ CallsOf("build") = {}

\* the controller was built after a failed check, a push and a second check
C37_Witness ==
    /\ app.pc = "done" /\ app.ret = "ok"
    /\ CallsOf("push") # {}
    /\ Cardinality(CallsOf("check")) = 2

\* the lines of gesture g on the input stream of MaaTouch, in order
LinesOf(g) == SelectSeq(touch.stream, LAMBDA l : l.g = g)

\* the touch commands (everything but commits) among the lines of gesture g
TouchCommands(g) == SelectSeq(LinesOf(g), LAMBDA l : l.cmd # "c")

\* C38: click and swipe hold the MaaTouch mutex for the whole gesture, so
\* for any interleaving of threads the command lines of two gestures never
\* interleave on the input stream; every gesture that returns Ok wrote a
\* down for contact 0 first and an up for contact 0 last, each touch command
\* followed by a commit before the next one, so contact 0 is released when
\* the call returns Ok.
C38_GesturesDoNotInterleave ==
    /\ \A t \in Threads : touch.pc[t] = "write" => touch.lock = t
    /\ \A i \in 1..Len(touch.stream), k \in 1..Len(touch.stream) :
          i < k /\ touch.stream[i].g = touch.stream[k].g =>
             \A j \in i..k : touch.stream[j].g = touch.stream[i].g
    /\ \A g \in 1..Len(touch.results) :
          touch.results[g] = "ok" =>
             LET lines == LinesOf(g)
                 cmds == TouchCommands(g)
             IN  /\ Len(cmds) >= 2
                 /\ cmds[1].cmd = "d" /\ lines[1].cmd = "d"
                 /\ cmds[Len(cmds)].cmd = "u"
                 /\ \A k \in 2..(Len(cmds) - 1) : cmds[k].cmd = "m"
                 /\ \A k \in 1..Len(lines) :
                       lines[k].cmd # "c" =>
                          k < Len(lines) /\ lines[k + 1].cmd = "c"

\* two gestures have returned Ok, a swipe with a move among them; the one
\* called first wrote last, having waited at the Mutex for the other
C38_Witness ==
    /\ Len(touch.results) = 2
    /\ touch.results[1] = "ok" /\ touch.results[2] = "ok"
    /\ \E k \in 1..Len(touch.stream) : touch.stream[k].cmd = "m"
    /\ touch.stream[1].g = 2

====
